---- MODULE Spec2Model ----
(***************************************************************************)
(* Model of the artifact discovery, consolidation and filtering engine of  *)
(* maven-repository-builder: ArtifactListBuilder.buildList (the concurrent *)
(* aggregator) and Filter.filter (the sequential filter pipeline).         *)
(*                                                                         *)
(* Encoding of strings.  A colon separated coordinate string such as       *)
(* "g:a:jar:sources:1.0" is the sequence of its segments                   *)
(* <<"g","a","jar","sources","1.0">>; no segment contains a colon, so      *)
(* "%s:%s" % (x, y) is x \o y and pattern.count(":") is Len(pattern) - 1.  *)
(***************************************************************************)
EXTENDS Integers, Sequences, FiniteSets, TLC

VARIABLES
    artifactSources,  \* configuration.artifactSources: the declared sources
    pc,               \* position of the thread running buildList
    priority,         \* buildList's local counter `priority`
    pool_dict,        \* buildList's pool_dict: source type -> state of its pool
    errors,           \* the queue the local name `errors` is bound to (0: unbound)
    queues,           \* queues[i]: number of exceptions put in the Queue made at iteration i
    tasks,            \* the submitted tasks, in submission order
    results,          \* self.results: priority -> artifacts
    results_lock,     \* self.results_lock: 0 when free, else the task holding it
    ret,              \* what buildList gave back to its caller
    config,           \* Filter.config
    artifactList,     \* the structure Filter.filter works on
    fpc,              \* position of the thread running Filter.filter
    stageLog,         \* the filter stages called so far, in call order
    pending,          \* _filterExcludedRepositories: probes submitted and not finished
    delArtifacts,     \* _filterExcludedRepositories: its list delArtifacts
    op,               \* the method called on its own ("none": no such call)
    args,             \* the arguments of that call
    result,           \* what the call gave back: the value, or that it raised
    cpc,              \* position of the call: "idle", "called", "returned"
    locals            \* the local variables of the called method, while it runs

builderVars == <<artifactSources, pc, priority, pool_dict, errors, queues, tasks,
                 results, results_lock, ret>>

filterVars == <<config, artifactList, fpc, stageLog, pending, delArtifacts>>

callVars == <<op, args, result, cpc, locals>>

vars == <<builderVars, filterVars, callVars>>

-----------------------------------------------------------------------------
(* Bounds of the model *)

MaxSources == 3

-----------------------------------------------------------------------------
(* Generic helpers on functions used as Python dicts *)

None == "None"

DictDel(d, k) == [x \in DOMAIN d \ {k} |-> d[x]]

DictPut(d, k, v) == [x \in DOMAIN d \cup {k} |-> IF x = k THEN v ELSE d[x]]

DictUpdate(d, u) == [x \in DOMAIN d \cup DOMAIN u |-> IF x \in DOMAIN u THEN u[x] ELSE d[x]]

EmptyDict == <<>>

-----------------------------------------------------------------------------
(* maven_artifact.py *)

MavenArtifact(groupId, artifactId, artifactType, version, classifier) ==
    [groupId |-> groupId, artifactId |-> artifactId, artifactType |-> artifactType,
     version |-> version, classifier |-> classifier]

getGA(a) == <<a.groupId, a.artifactId>>

getGAV(a) == <<a.groupId, a.artifactId, a.version>>

\* getGATCV that leaves the type out only when it is None
getGATCVKeepingEmptyType(a) ==
    <<a.groupId, a.artifactId>>
        \o (IF a.artifactType # None THEN <<a.artifactType>> ELSE <<>>)
        \o (IF a.classifier \notin {"", None} THEN <<a.classifier>> ELSE <<>>)
        \o <<a.version>>

getGATCV(a) ==
    <<a.groupId, a.artifactId>>
        \o (IF a.artifactType \notin {"", None} THEN <<a.artifactType>> ELSE <<>>)
        \o (IF a.classifier \notin {"", None} THEN <<a.classifier>> ELSE <<>>)
        \o <<a.version>>

\* the characters of the strings that are compared
chars(string) ==
    CASE string = "" -> <<>>
      [] string = "g" -> <<"g">>
      [] string = "a" -> <<"a">>
      [] string = "b" -> <<"b">>
      [] string = "jar" -> <<"j", "a", "r">>
      [] string = "sources" -> <<"s", "o", "u", "r", "c", "e", "s">>
      [] string = "1.0" -> <<"1", ".", "0">>
      [] string = "1.1" -> <<"1", ".", "1">>

\* ord() of a character
ord(c) ==
    CASE c = "." -> 46 [] c = "0" -> 48 [] c = "1" -> 49 [] c = ":" -> 58
      [] c = "a" -> 97 [] c = "b" -> 98 [] c = "c" -> 99 [] c = "e" -> 101
      [] c = "g" -> 103 [] c = "j" -> 106 [] c = "o" -> 111 [] c = "r" -> 114
      [] c = "s" -> 115 [] c = "u" -> 117

\* the characters of a colon separated string given by its segments
RECURSIVE colonJoined(_)
colonJoined(segments) ==
    IF Len(segments) = 1 THEN chars(segments[1])
    ELSE colonJoined(SubSeq(segments, 1, Len(segments) - 1)) \o <<":">> \o chars(segments[Len(segments)])

\* cmp() of two strings given by their characters
RECURSIVE cmp(_, _)
cmp(x, y) ==
    IF x = <<>> /\ y = <<>> THEN 0
    ELSE IF x = <<>> THEN -1
    ELSE IF y = <<>> THEN 1
    ELSE IF ord(x[1]) < ord(y[1]) THEN -1
    ELSE IF ord(x[1]) > ord(y[1]) THEN 1
    ELSE cmp(Tail(x), Tail(y))

-----------------------------------------------------------------------------
(* artifact_list_builder.py: ArtifactType, ArtifactSpec *)

notMainExtClassifiers ==
    {"pom:", "jar:javadoc", "jar:sources", "jar:tests", "jar:test-sources",
     "tar.gz:project-sources", "xml:site", "zip:patches", "zip:scm-sources"}

MAX_THREADS_DICT ==
    [t \in {"mead-tag", "dependency-list", "dependency-graph", "repository"} |->
        CASE t = "mead-tag" -> 2
          [] t = "dependency-list" -> 1
          [] t = "dependency-graph" -> 6
          [] t = "repository" -> 2]

ArtifactType(artType, mainType, classifiers) ==
    [artType |-> artType, mainType |-> mainType, classifiers |-> classifiers]

\* ArtifactSpec.__init__; artTypes is given as the dict extension -> ArtifactType
ArtifactSpec(url, artTypes) == [url |-> url, artTypes |-> artTypes, paths |-> <<>>]

containsMain(spec) == \E t \in DOMAIN spec.artTypes : spec.artTypes[t].mainType

\* mergeRaises without the test of the types both specs have
mergeRaisesOnUrlsOnly(self, other) ==
    other.url # "" /\ self.url # other.url

\* ArtifactSpec.merge: the conditions under which it raises ValueError, and
\* the receiver after a merge that does not raise.
mergeRaises(self, other) ==
    \/ (other.url # "" /\ self.url # other.url)
    \/ \E t \in DOMAIN other.artTypes : t \in DOMAIN self.artTypes

merge(self, other) ==
    [url |-> self.url,
     artTypes |-> DictUpdate(self.artTypes, other.artTypes),
     paths |-> self.paths \o other.paths]

-----------------------------------------------------------------------------
(* maven_repo_util (not part of the sources at hand): patterns.  A pattern  *)
(* is a coordinate string in which a segment "*" stands for ".*": it takes  *)
(* one or more whole segments of the matched string.                        *)

RECURSIVE patternMatch(_, _)
patternMatch(p, t) ==
    IF p = <<>> THEN t = <<>>
    ELSE IF Head(p) = "*"
         THEN \E k \in 1..Len(t) : patternMatch(Tail(p), SubSeq(t, k + 1, Len(t)))
         ELSE t # <<>> /\ Head(t) = Head(p) /\ patternMatch(Tail(p), Tail(t))

somethingMatch(regExps, string) ==
    \E i \in 1..Len(regExps) : patternMatch(regExps[i], string)

\* the split of the patterns by regExp.pattern.count(":") > 2
SelectSeqGATCV(regExps) == SelectSeq(regExps, LAMBDA r : Len(r) - 1 > 2)

SelectSeqGAV(regExps) == SelectSeq(regExps, LAMBDA r : ~(Len(r) - 1 > 2))

-----------------------------------------------------------------------------
(* artifact_list_builder.py: collectors.  The partial result of a collector *)
(* (a dict MavenArtifact -> ArtifactSpec) is a sequence of <<key, value>>   *)
(* pairs with distinct keys, in the iteration order of the dict.            *)

\* An outcome of a computation that may raise: the value, or ok = FALSE.
Ok(v) == [ok |-> TRUE, value |-> v]

Raised == [ok |-> FALSE, value |-> <<>>]

DictKeys(artifacts) == {artifacts[i][1] : i \in 1..Len(artifacts)}

DictIndex(artifacts, key) == CHOOSE i \in 1..Len(artifacts) : artifacts[i][1] = key

_containsMainArtifact(extsAndClass) ==
    \E ext \in DOMAIN extsAndClass : \E classifier \in extsAndClass[ext] :
        (ext \o ":" \o classifier) \notin notMainExtClassifiers

\* the main flag _addArtifact gives to extension ext
mainOf(ext, classifiers, pomMain) ==
    \/ (ext = "pom" /\ pomMain)
    \/ \E classifier \in classifiers : (ext \o ":" \o classifier) \notin notMainExtClassifiers

\* The snapshot suffix is stored on the key object only and takes no part in
\* its equality or hash, so the key is the same record with or without it.
_addArtifact(artifacts, groupId, artifactId, version, extsAndClass, suffix, url) ==
    LET pomMain == ~(Cardinality(DOMAIN extsAndClass) > 1
                     /\ _containsMainArtifact(extsAndClass)
                     /\ "pom" \in DOMAIN extsAndClass)
        artTypes == [ext \in DOMAIN extsAndClass |->
                        ArtifactType(ext, mainOf(ext, extsAndClass[ext], pomMain),
                                     extsAndClass[ext])]
        mavenArtifact == MavenArtifact(groupId, artifactId, None, version, "")
        spec == ArtifactSpec(url, artTypes)
    IN  IF mavenArtifact \in DictKeys(artifacts)
        THEN LET i == DictIndex(artifacts, mavenArtifact)
             IN  IF mergeRaises(artifacts[i][2], spec) THEN Raised
                 ELSE Ok([artifacts EXCEPT ![i] = <<mavenArtifact, merge(artifacts[i][2], spec)>>])
        ELSE Ok(Append(artifacts, <<mavenArtifact, spec>>))

\* ArtifactSpec.add_path for every path of a list, on the spec of a key
addPaths(artifacts, key, paths) ==
    LET i == DictIndex(artifacts, key)
    IN  [artifacts EXCEPT ![i] = <<key, [artifacts[i][2] EXCEPT !.paths = @ \o paths]>>]

\* The loop of a collector over what its source lists (the entries of the
\* listing, in listing order): one _addArtifact per listed coordinate, then
\* the provenance paths the source gives for the coordinate.
RECURSIVE collect(_)
collect(listing) ==
    IF listing = <<>> THEN Ok(<<>>)
    ELSE LET before == collect(SubSeq(listing, 1, Len(listing) - 1))
             e == listing[Len(listing)]
             added == _addArtifact(before.value, e.groupId, e.artifactId, e.version,
                                   e.extsAndClass, None, e.url)
         IN  IF ~before.ok \/ ~added.ok THEN Raised
             ELSE Ok(addPaths(added.value,
                              MavenArtifact(e.groupId, e.artifactId, None, e.version, ""),
                              e.paths))

\* The classifiers of one type that no GATCV-shaped pattern matches.
keptClassifiers(ga, artType, at, version, gatcvRegExps) ==
    {classifier \in at.classifiers :
        ~somethingMatch(gatcvRegExps,
                        IF classifier # "" THEN ga \o <<artType, classifier, version>>
                        ELSE ga \o <<artType, version>>)}

\* dropExcludedGATCVs that leaves a type in place when it has emptied it
dropExcludedGATCVsKeepingEmptied(artSpec, ga, version, gatcvRegExps) ==
    [artSpec EXCEPT !.artTypes =
        [t \in DOMAIN artSpec.artTypes |->
            [artSpec.artTypes[t] EXCEPT !.classifiers =
                keptClassifiers(ga, t, artSpec.artTypes[t], version, gatcvRegExps)]]]

\* The types of artSpec after the removal of the matched classifiers and of
\* the types left without classifier; the mainType flags are not recomputed.
dropExcludedGATCVs(artSpec, ga, version, gatcvRegExps) ==
    LET left == {t \in DOMAIN artSpec.artTypes :
                    keptClassifiers(ga, t, artSpec.artTypes[t], version, gatcvRegExps) # {}}
    IN  [artSpec EXCEPT !.artTypes =
            [t \in left |->
                [artSpec.artTypes[t] EXCEPT !.classifiers =
                    keptClassifiers(ga, t, artSpec.artTypes[t], version, gatcvRegExps)]]]

\* ArtifactListBuilder._filterExcludedGAVs on the partial result of a source
RECURSIVE builderFilterExcludedGAVs(_, _)
builderFilterExcludedGAVs(artifacts, excludedGAVs) ==
    IF artifacts = <<>> THEN <<>>
    ELSE LET artifact == Head(artifacts)[1]
             artSpec == dropExcludedGATCVs(Head(artifacts)[2], getGA(artifact),
                                           artifact.version, SelectSeqGATCV(excludedGAVs))
             rest == builderFilterExcludedGAVs(Tail(artifacts), excludedGAVs)
         IN  IF somethingMatch(SelectSeqGAV(excludedGAVs), getGAV(artifact))
             THEN rest
             ELSE IF ~containsMain(artSpec) THEN rest
                  ELSE <<(<<artifact, artSpec>>)>> \o rest

\* The try block of ArtifactListBuilder._read_artifact_source: the artifacts
\* the collector of a source returns, or Raised.  source.fails stands for an
\* unrecoverable failure inside the collector (network, external tool).
readArtifacts(source) ==
    IF source.fails THEN Raised
    ELSE LET artifacts == collect(source.listing)
         IN  IF ~artifacts.ok THEN Raised
             ELSE IF source.excludedGAVs # <<>>
                  THEN Ok(builderFilterExcludedGAVs(artifacts.value, source.excludedGAVs))
                  ELSE artifacts

\* ArtifactListBuilder._get_artifact_list: the artifacts of one priority
RECURSIVE placeArtifacts(_, _, _)
placeArtifacts(acc, prio, artifacts) ==
    IF artifacts = <<>> \/ ~acc.ok THEN acc
    ELSE LET artifact == Head(artifacts)[1]
             artSpec == Head(artifacts)[2]
             ga == getGA(artifact)
             al == acc.value
             byPrio == IF ga \in DOMAIN al THEN al[ga] ELSE EmptyDict
             byVersion == IF prio \in DOMAIN byPrio THEN byPrio[prio] ELSE EmptyDict
         IN  IF artifact.version \in DOMAIN byVersion
             THEN IF mergeRaises(byVersion[artifact.version], artSpec) THEN Raised
                  ELSE placeArtifacts(
                          Ok(DictPut(al, ga, DictPut(byPrio, prio,
                              DictPut(byVersion, artifact.version,
                                      merge(byVersion[artifact.version], artSpec))))),
                          prio, Tail(artifacts))
             ELSE placeArtifacts(
                     Ok(DictPut(al, ga, DictPut(byPrio, prio,
                         DictPut(byVersion, artifact.version, artSpec)))),
                     prio, Tail(artifacts))

RECURSIVE placePriorities(_, _, _)
placePriorities(acc, res, prios) ==
    IF prios = {} THEN acc
    ELSE LET p == CHOOSE x \in prios : \A y \in prios : x <= y
         IN  placePriorities(placeArtifacts(acc, p, res[p]), res, prios \ {p})

_get_artifact_list(res) == placePriorities(Ok(EmptyDict), res, DOMAIN res)

-----------------------------------------------------------------------------
(* The declared sources the model draws from *)

SourceTypesUsed == {"repository", "dependency-graph"}

GroupIds == {"g"}

ArtifactIds == {"a", "b"}

Versions == {"1.0", "1.1"}

Urls == {"X", "Y"}

jarPom == [ext \in {"jar", "pom"} |-> {""}]

pomOnly == [ext \in {"pom"} |-> {""}]

sourcesOnly == [ext \in {"jar"} |-> {"sources"}]

jarSourcesPom == [ext \in {"jar", "pom"} |-> IF ext = "jar" THEN {"", "sources"} ELSE {""}]

ExtsAndClassChoices == {jarPom, pomOnly, sourcesOnly, jarSourcesPom}

Entry(g, a, v, exts, url, paths) ==
    [groupId |-> g, artifactId |-> a, version |-> v, extsAndClass |-> exts, url |-> url,
     paths |-> paths]

Source(type, fails, listing, excludedGAVs) ==
    [type |-> type, fails |-> fails, listing |-> listing, excludedGAVs |-> excludedGAVs]

\* What a declared source may be in the runs of buildList: a collector that
\* raises, one that finds nothing, one that finds a coordinate, and one whose
\* own excludedGAVs remove one of the two coordinates it finds.
SourceChoices ==
    {Source("repository", TRUE, <<>>, <<>>),
     Source("dependency-graph", TRUE, <<>>, <<>>),
     Source("dependency-graph", FALSE, <<>>, <<>>),
     Source("repository", FALSE, <<Entry("g", "a", "1.0", jarPom, "X", <<>>)>>, <<>>),
     Source("repository", FALSE, <<Entry("g", "a", "1.0", jarPom, "Y", <<>>),
                                   Entry("g", "b", "1.1", pomOnly, "Y", <<>>)>>,
            <<(<<"g", "a", "*">>)>>)}

SeqsUpTo(S, n) == UNION {[1..k -> S] : k \in 1..n}

-----------------------------------------------------------------------------
(* ArtifactListBuilder.buildList and the threads of its pools *)

N == Len(artifactSources)

\* Filter.config: the fields Filter reads
Config(excludedGAVs, excludedTypes, gatcvWhitelist, singleVersion, multiVersionGAs,
       excludedRepositories) ==
    [excludedGAVs |-> excludedGAVs, excludedTypes |-> excludedTypes,
     gatcvWhitelist |-> gatcvWhitelist, singleVersion |-> singleVersion,
     multiVersionGAs |-> multiVersionGAs, excludedRepositories |-> excludedRepositories]

NoConfig == Config(<<>>, {}, <<>>, FALSE, <<>>, <<>>)

NoRet == [kind |-> "none", count |-> 0, artifactList |-> EmptyDict]

\* ArtifactListBuilder.__init__ and the first lines of buildList
BuildListCalled ==
    /\ pc = "submit"
    /\ priority = 0
    /\ pool_dict = EmptyDict
    /\ errors = 0
    /\ queues = [i \in 1..MaxSources |-> 0]
    /\ tasks = <<>>
    /\ results = EmptyDict
    /\ results_lock = 0
    /\ ret = NoRet

\* no Filter.filter is running
FilterIdle ==
    /\ config = NoConfig
    /\ artifactList = EmptyDict
    /\ fpc = "idle"
    /\ stageLog = <<>>
    /\ pending = {}
    /\ delArtifacts = <<>>

\* no method is called on its own
CallIdle ==
    /\ op = "none"
    /\ args = <<>>
    /\ result = <<>>
    /\ cpc = "idle"
    /\ locals = <<>>

Init ==
    /\ artifactSources \in SeqsUpTo(SourceChoices, MaxSources)
    /\ BuildListCalled
    /\ FilterIdle
    /\ CallIdle

PoolOf(k) == artifactSources[tasks[k].source].type

Running(t) == {k \in 1..Len(tasks) : PoolOf(k) = t /\ tasks[k].state = "running"}

\* Submit with the counter incremented after the submission instead of before
SubmitLateIncrement ==
    /\ pc = "submit"
    /\ LET i == Len(tasks) + 1
           source == artifactSources[i]
       IN  /\ priority' = priority + 1
           /\ pool_dict' = IF source.type \in DOMAIN pool_dict THEN pool_dict
                           ELSE DictPut(pool_dict, source.type, "RUN")
           /\ errors' = i
           /\ tasks' = Append(tasks, [source |-> i, priority |-> priority,
                                      errors |-> i, state |-> "queued"])
           /\ pc' = IF i = N THEN "close" ELSE "submit"
    /\ UNCHANGED <<artifactSources, queues, results, results_lock, ret>>
    /\ UNCHANGED <<filterVars, callVars>>

\* buildList lines 65-70: one iteration of the submission loop
Submit ==
    /\ pc = "submit"
    /\ LET i == Len(tasks) + 1
           source == artifactSources[i]
       IN  /\ priority' = priority + 1
           /\ pool_dict' = IF source.type \in DOMAIN pool_dict THEN pool_dict
                           ELSE DictPut(pool_dict, source.type, "RUN")
           /\ errors' = i
           /\ tasks' = Append(tasks, [source |-> i, priority |-> priority + 1,
                                      errors |-> i, state |-> "queued"])
           /\ pc' = IF i = N THEN "close" ELSE "submit"
    /\ UNCHANGED <<artifactSources, queues, results, results_lock, ret>>
    /\ UNCHANGED <<filterVars, callVars>>

\* buildList lines 72-73
ClosePools ==
    /\ pc = "close"
    /\ pool_dict' = [t \in DOMAIN pool_dict |-> "CLOSE"]
    /\ pc' = "poll"
    /\ UNCHANGED <<artifactSources, priority, errors, queues, tasks, results,
                   results_lock, ret>>
    /\ UNCHANGED <<filterVars, callVars>>

\* buildList lines 75-91: the body of the polling loop after its sleep.
\* terminate() waits for the result handler of the pool, so it returns only
\* when no callback of the pool is inside _add_result; the tasks not yet
\* taken by a worker are dropped, the running ones are left to their threads.
\* Every path through the body leaves the loop: the break of line 84, the
\* break of line 91, or at_least_1_runs left False.
Poll ==
    /\ pc = "poll"
    /\ IF queues[errors] > 0
       THEN /\ \A k \in 1..Len(tasks) : tasks[k].state # "updating"
            /\ pool_dict' = [t \in DOMAIN pool_dict |-> "TERMINATE"]
            /\ tasks' = [k \in 1..Len(tasks) |->
                            IF tasks[k].state = "queued"
                            THEN [tasks[k] EXCEPT !.state = "dropped"] ELSE tasks[k]]
       ELSE UNCHANGED <<pool_dict, tasks>>
    /\ pc' = "join"
    /\ UNCHANGED <<artifactSources, priority, errors, queues, results, results_lock, ret>>
    /\ UNCHANGED <<filterVars, callVars>>

\* buildList lines 93-95: join() of every pool that was not terminated
\* returns when its workers ran all its tasks and its callbacks are done.
JoinPools ==
    /\ pc = "join"
    /\ \A k \in 1..Len(tasks) :
          pool_dict[PoolOf(k)] # "TERMINATE" => tasks[k].state \in {"done", "raised"}
    /\ pc' = "check"
    /\ UNCHANGED <<artifactSources, priority, pool_dict, errors, queues, tasks,
                   results, results_lock, ret>>
    /\ UNCHANGED <<filterVars, callVars>>

\* buildList lines 97-100
Return ==
    /\ pc = "check"
    /\ IF queues[errors] > 0
       THEN /\ pc' = "raised"
            /\ ret' = [kind |-> "RuntimeError", count |-> queues[errors],
                       artifactList |-> EmptyDict]
       ELSE LET al == _get_artifact_list(results)
            IN  IF al.ok
                THEN /\ pc' = "returned"
                     /\ ret' = [kind |-> "list", count |-> 0, artifactList |-> al.value]
                ELSE /\ pc' = "raised"
                     /\ ret' = [kind |-> "ValueError", count |-> 0,
                                artifactList |-> EmptyDict]
    /\ UNCHANGED <<artifactSources, priority, pool_dict, errors, queues, tasks,
                   results, results_lock>>
    /\ UNCHANGED <<filterVars, callVars>>

\* A worker of the pool takes the oldest waiting task of the pool.
StartTask(k) ==
    /\ tasks[k].state = "queued"
    /\ pool_dict[PoolOf(k)] # "TERMINATE"
    /\ Cardinality(Running(PoolOf(k))) < MAX_THREADS_DICT[PoolOf(k)]
    /\ \A j \in 1..(k - 1) : PoolOf(j) = PoolOf(k) => tasks[j].state # "queued"
    /\ tasks' = [tasks EXCEPT ![k].state = "running"]
    /\ UNCHANGED <<artifactSources, pc, priority, pool_dict, errors, queues, results,
                   results_lock, ret>>
    /\ UNCHANGED <<filterVars, callVars>>

\* _read_artifact_source lines 134-178 in a worker thread: it returns
\* {priority: artifacts}, or puts the exception in its queue and raises.
ReadArtifactSource(k) ==
    /\ tasks[k].state = "running"
    /\ LET artifacts == readArtifacts(artifactSources[tasks[k].source])
       IN  IF artifacts.ok
           THEN /\ tasks' = [tasks EXCEPT ![k].state = "returned"]
                /\ UNCHANGED queues
           ELSE /\ tasks' = [tasks EXCEPT ![k].state = "raised"]
                /\ queues' = [queues EXCEPT ![tasks[k].errors] = @ + 1]
    /\ UNCHANGED <<artifactSources, pc, priority, pool_dict, errors, results,
                   results_lock, ret>>
    /\ UNCHANGED <<filterVars, callVars>>

\* ResultOf keyed by the counter of buildList instead of the task's own priority
ResultOfSharedPriority(k) ==
    [p \in {priority} |-> readArtifacts(artifactSources[tasks[k].source]).value]

\* The value the callback of task k is called with
ResultOf(k) ==
    [p \in {tasks[k].priority} |-> readArtifacts(artifactSources[tasks[k].source]).value]

\* AddResultAcquire entering the section without waiting for the lock
AddResultAcquireNoWait(k) ==
    /\ tasks[k].state = "returned"
    /\ pool_dict[PoolOf(k)] # "TERMINATE"
    /\ \A j \in 1..Len(tasks) : PoolOf(j) = PoolOf(k) => tasks[j].state # "updating"
    /\ results_lock' = k
    /\ tasks' = [tasks EXCEPT ![k].state = "updating"]
    /\ UNCHANGED <<artifactSources, pc, priority, pool_dict, errors, queues, results, ret>>
    /\ UNCHANGED <<filterVars, callVars>>

\* _add_result lines 103-105, run by the result handler thread of the pool
\* (one callback at a time per pool): acquire results_lock
AddResultAcquire(k) ==
    /\ tasks[k].state = "returned"
    /\ pool_dict[PoolOf(k)] # "TERMINATE"
    /\ \A j \in 1..Len(tasks) : PoolOf(j) = PoolOf(k) => tasks[j].state # "updating"
    /\ ResultOf(k) # EmptyDict
    /\ results_lock = 0
    /\ results_lock' = k
    /\ tasks' = [tasks EXCEPT ![k].state = "updating"]
    /\ UNCHANGED <<artifactSources, pc, priority, pool_dict, errors, queues, results, ret>>
    /\ UNCHANGED <<filterVars, callVars>>

\* _add_result lines 106-108: the update, and the release of the finally clause
AddResultUpdate(k) ==
    /\ tasks[k].state = "updating"
    /\ results' = DictUpdate(results, ResultOf(k))
    /\ results_lock' = 0
    /\ tasks' = [tasks EXCEPT ![k].state = "done"]
    /\ UNCHANGED <<artifactSources, pc, priority, pool_dict, errors, queues, ret>>
    /\ UNCHANGED <<filterVars, callVars>>

Next ==
    \/ Submit
    \/ ClosePools
    \/ Poll
    \/ JoinPools
    \/ Return
    \/ \E k \in 1..Len(tasks) : StartTask(k)
    \/ \E k \in 1..Len(tasks) : ReadArtifactSource(k)
    \/ \E k \in 1..Len(tasks) : AddResultAcquire(k)
    \/ \E k \in 1..Len(tasks) : AddResultUpdate(k)

Spec == Init /\ [][Next]_vars

-----------------------------------------------------------------------------
(* filter.py: the stages of Filter.filter as functions of the structure     *)
(* group:artifact -> priority -> version -> ArtifactSpec.  The stages that  *)
(* treat every version entry on its own are written entry-wise; the dicts   *)
(* they empty are removed where the code removes them.                      *)

\* _filterExcludedGAVs whose GAV-shaped patterns act on the lowest priority of
\* a group:artifact only
_filterExcludedGAVsAtLowestPriority(al, excludedGAVs) ==
    LET gavRegExps == SelectSeqGAV(excludedGAVs)
        gatcvRegExps == SelectSeqGATCV(excludedGAVs)
        artSpec(ga, p, v) == dropExcludedGATCVs(al[ga][p][v], ga, v, gatcvRegExps)
        versions(ga, p) == {v \in DOMAIN al[ga][p] :
                               /\ ~(somethingMatch(gavRegExps, ga \o <<v>>)
                                    /\ \A q \in DOMAIN al[ga] : p <= q)
                               /\ containsMain(artSpec(ga, p, v))}
        priorities(ga) == {p \in DOMAIN al[ga] : versions(ga, p) # {}}
    IN  [ga \in {g \in DOMAIN al : priorities(g) # {}} |->
            [p \in priorities(ga) |-> [v \in versions(ga, p) |-> artSpec(ga, p, v)]]]

\* Filter._filterExcludedGAVs
_filterExcludedGAVs(al, excludedGAVs) ==
    LET gavRegExps == SelectSeqGAV(excludedGAVs)
        gatcvRegExps == SelectSeqGATCV(excludedGAVs)
        artSpec(ga, p, v) == dropExcludedGATCVs(al[ga][p][v], ga, v, gatcvRegExps)
        versions(ga, p) == {v \in DOMAIN al[ga][p] :
                               /\ ~somethingMatch(gavRegExps, ga \o <<v>>)
                               /\ containsMain(artSpec(ga, p, v))}
        priorities(ga) == {p \in DOMAIN al[ga] : versions(ga, p) # {}}
    IN  [ga \in {g \in DOMAIN al : priorities(g) # {}} |->
            [p \in priorities(ga) |-> [v \in versions(ga, p) |-> artSpec(ga, p, v)]]]

\* The classifiers of an excluded type that the GATCV allow-list keeps
whitelistedClassifiers(ga, artType, at, version, regExps) ==
    {classifier \in at.classifiers :
        somethingMatch(regExps,
                       getGATCV(MavenArtifact(ga[1], ga[2], artType, version, classifier)))}

\* dropExcludedTypes that removes an excluded type whatever the allow-list
dropExcludedTypesIgnoringWhitelist(artSpec, ga, version, exclTypes, regExps) ==
    [artSpec EXCEPT !.artTypes =
        [t \in DOMAIN artSpec.artTypes \ exclTypes |-> artSpec.artTypes[t]]]

\* filter.py lines 108-127: the types of a version entry after the excluded types
dropExcludedTypes(artSpec, ga, version, exclTypes, regExps) ==
    LET kept(t) == IF t \in exclTypes
                   THEN whitelistedClassifiers(ga, t, artSpec.artTypes[t], version, regExps)
                   ELSE artSpec.artTypes[t].classifiers
        left == {t \in DOMAIN artSpec.artTypes : t \notin exclTypes \/ kept(t) # {}}
    IN  [artSpec EXCEPT !.artTypes =
            [t \in left |-> [artSpec.artTypes[t] EXCEPT !.classifiers = kept(t)]]]

\* Filter._filterExcludedTypes
_filterExcludedTypes(al, exclTypes, gatcvWhitelist) ==
    LET artSpec(ga, p, v) == dropExcludedTypes(al[ga][p][v], ga, v, exclTypes, gatcvWhitelist)
        noMain(spec) == \A t \in DOMAIN spec.artTypes : ~spec.artTypes[t].mainType
        versions(ga, p) == {v \in DOMAIN al[ga][p] :
                               ~(DOMAIN artSpec(ga, p, v).artTypes = {}
                                 \/ noMain(artSpec(ga, p, v)))}
        priorities(ga) == {p \in DOMAIN al[ga] : versions(ga, p) # {}}
    IN  [ga \in {g \in DOMAIN al : priorities(g) # {}} |->
            [p \in priorities(ga) |-> [v \in versions(ga, p) |-> artSpec(ga, p, v)]]]

Min(S) == CHOOSE x \in S : \A y \in S : x <= y

\* pathsAt taking the paths of the first duplicate only
pathsAtFirstOnly(byPrio, prs, v) ==
    IF prs = {} THEN <<>> ELSE byPrio[Min(prs)][v].paths

\* the paths of version v at the priorities prs, lowest priority first (the
\* iteration order of a dict with small int keys)
RECURSIVE pathsAt(_, _, _)
pathsAt(byPrio, prs, v) ==
    IF prs = {} THEN <<>>
    ELSE byPrio[Min(prs)][v].paths \o pathsAt(byPrio, prs \ {Min(prs)}, v)

\* dropDuplicatesOf without the removal of the priority it finds empty
dropDuplicatesOfKeepingEmptied(byPrio, prio) ==
    LET mine == byPrio[prio]
        higher(v) == {pr \in DOMAIN byPrio : pr > prio /\ v \in DOMAIN byPrio[pr]}
    IN  [pr \in DOMAIN byPrio |->
            IF pr = prio
            THEN [v \in DOMAIN mine |->
                    [mine[v] EXCEPT !.paths = @ \o pathsAt(byPrio, higher(v), v)]]
            ELSE IF pr > prio
                 THEN [v \in DOMAIN byPrio[pr] \ DOMAIN mine |-> byPrio[pr][v]]
                 ELSE byPrio[pr]]

\* filter.py lines 202-214: one iteration of the loop over sorted priorities
dropDuplicatesOf(byPrio, prio) ==
    LET mine == byPrio[prio]
        higher(v) == {pr \in DOMAIN byPrio : pr > prio /\ v \in DOMAIN byPrio[pr]}
        after == [pr \in DOMAIN byPrio |->
                    IF pr = prio
                    THEN [v \in DOMAIN mine |->
                            [mine[v] EXCEPT !.paths = @ \o pathsAt(byPrio, higher(v), v)]]
                    ELSE IF pr > prio
                         THEN [v \in DOMAIN byPrio[pr] \ DOMAIN mine |-> byPrio[pr][v]]
                         ELSE byPrio[pr]]
    IN  IF DOMAIN after[prio] = {} THEN DictDel(after, prio) ELSE after

\* filter.py line 201: the loop over sorted(artifactList[ga].keys())
RECURSIVE dropDuplicates(_, _)
dropDuplicates(byPrio, prios) ==
    IF prios = {} THEN byPrio
    ELSE dropDuplicates(dropDuplicatesOf(byPrio, Min(prios)), prios \ {Min(prios)})

\* Filter._filterDuplicates
_filterDuplicates(al) ==
    LET after == [ga \in DOMAIN al |-> dropDuplicates(al[ga], DOMAIN al[ga])]
    IN  [ga \in {g \in DOMAIN al : DOMAIN after[g] # {}} |-> after[ga]]

\* The order of the external version comparator on the versions of the model
versionRank(v) == CASE v = "1.0" -> 0 [] v = "1.1" -> 1 [] v = "1.2" -> 2 [] v = "1.3" -> 3

\* maven_repo_util._sortVersionsWithAtlas: the versions, highest first
RECURSIVE _sortVersionsWithAtlas(_)
_sortVersionsWithAtlas(versions) ==
    IF versions = {} THEN <<>>
    ELSE LET top == CHOOSE v \in versions :
                        \A w \in versions : versionRank(w) <= versionRank(v)
         IN  <<top>> \o _sortVersionsWithAtlas(versions \ {top})

\* singleVersion keeping the last of the sorted versions
singleVersionKeepingLast(byPrio) ==
    LET prio == Min(DOMAIN byPrio)
        versions == _sortVersionsWithAtlas(DOMAIN byPrio[prio])
        dropped == {versions[i] : i \in 1..(Len(versions) - 1)}
    IN  [p \in {prio} |-> [v \in DOMAIN byPrio[prio] \ dropped |-> byPrio[prio][v]]]

\* filter.py lines 228-244: what is left of a group:artifact that is not exempt
singleVersion(byPrio) ==
    LET prio == Min(DOMAIN byPrio)
        versions == IF Cardinality(DOMAIN byPrio[prio]) > 1
                    THEN _sortVersionsWithAtlas(DOMAIN byPrio[prio])
                    ELSE IF DOMAIN byPrio[prio] = {} THEN <<>>
                         ELSE <<CHOOSE v \in DOMAIN byPrio[prio] : TRUE>>
        dropped == {versions[i] : i \in 2..Len(versions)}
    IN  [p \in {prio} |-> [v \in DOMAIN byPrio[prio] \ dropped |-> byPrio[prio][v]]]

\* sorted(artifactList.keys()): the group:artifact strings in str order
RECURSIVE sortedKeys(_)
sortedKeys(keys) ==
    IF keys = {} THEN <<>>
    ELSE LET first == CHOOSE k \in keys :
                          \A other \in keys : cmp(colonJoined(k), colonJoined(other)) <= 0
         IN  <<first>> \o sortedKeys(keys \ {first})

\* one pass of the loop that skips no group:artifact
filterMultipleVersionsOfEvery(al, multiVersionGAs, ga) ==
    LET left == singleVersion(al[ga])
    IN  IF DOMAIN left = {} THEN DictDel(al, ga) ELSE [al EXCEPT ![ga] = left]

\* filter.py lines 224-247: one pass of the loop, for the group:artifact ga
filterMultipleVersionsOf(al, multiVersionGAs, ga) ==
    IF somethingMatch(multiVersionGAs, ga) THEN al
    ELSE LET left == singleVersion(al[ga])
         IN  IF DOMAIN left = {} THEN DictDel(al, ga) ELSE [al EXCEPT ![ga] = left]

\* filter.py line 224: the structure before the loop and after each pass of it
RECURSIVE multipleVersionsPasses(_, _, _)
multipleVersionsPasses(al, multiVersionGAs, keys) ==
    IF keys = <<>> THEN <<al>>
    ELSE <<al>> \o multipleVersionsPasses(filterMultipleVersionsOf(al, multiVersionGAs, Head(keys)),
                                          multiVersionGAs, Tail(keys))

\* Filter._filterMultipleVersions
_filterMultipleVersions(al, multiVersionGAs) ==
    LET passes == multipleVersionsPasses(al, multiVersionGAs, sortedKeys(DOMAIN al))
    IN  passes[Len(passes)]

\* What the excluded repositories hold (maven_repo_util.gavExists answers from it)
RepoContents ==
    {<<"R2", <<"g", "a", "1.1">>>>, <<"R2", <<"g", "b", "1.0">>>>,
     <<"D1", <<"g", "a", "1.0">>>>, <<"D1", <<"g", "b", "1.0">>>>,
     <<"D2", <<"g", "b", "1.0">>>>, <<"D2", <<"g", "c", "1.0">>>>}

gavExists(repoUrl, artifact) == <<repoUrl, getGAV(artifact)>> \in RepoContents

\* filter.py lines 177-187: the removals, in the order of delArtifacts
RECURSIVE removeFound(_, _)
removeFound(al, found) ==
    IF found = <<>> THEN al
    ELSE LET ga == getGA(found[1][1])
             prio == found[1][2]
             version == found[1][1].version
             versions == DictDel(al[ga][prio], version)
             byPrio == IF DOMAIN versions = {} THEN DictDel(al[ga], prio)
                       ELSE DictPut(al[ga], prio, versions)
         IN  removeFound(IF DOMAIN byPrio = {} THEN DictDel(al, ga)
                         ELSE DictPut(al, ga, byPrio),
                         Tail(found))

-----------------------------------------------------------------------------
(* Filter.filter on a structure buildList returned *)

MaxFilterSources == 3

pathA == <<"root1", "g:a:1.0">>

pathB == <<"root2", "g:a:1.1">>

pathC == <<"root1", "x", "g:a:1.0">>

\* The declared sources of the runs of the filter
FilterSourceChoices ==
    {Source("dependency-graph", TRUE, <<>>, <<>>),
     Source("dependency-graph", FALSE, <<>>, <<>>),
     Source("dependency-graph", FALSE,
            <<Entry("g", "a", "1.0", jarSourcesPom, "X", <<pathA>>)>>, <<>>),
     Source("dependency-graph", FALSE,
            <<Entry("g", "a", "1.0", jarPom, "Y", <<pathC>>),
              Entry("g", "a", "1.1", jarPom, "Y", <<pathB>>)>>, <<>>),
     Source("repository", FALSE,
            <<Entry("g", "a", "1.1", pomOnly, "Z", <<>>),
              Entry("g", "b", "1.0", sourcesOnly, "Z", <<>>)>>, <<>>),
     Source("repository", FALSE,
            <<Entry("g", "b", "1.0", jarPom, "Z", <<>>),
              Entry("g", "b", "1.1", jarSourcesPom, "Z", <<>>)>>, <<>>)}

\* What buildList gives back for the declared sources (lines 97-100, once
\* every pool is joined): it raises when the queue of the last source holds
\* an exception, else it returns the structure of the results that arrived.
buildListOutcome(sources) ==
    IF readArtifacts(sources[Len(sources)]).ok
    THEN _get_artifact_list([p \in {i \in 1..Len(sources) : readArtifacts(sources[i]).ok} |->
                                readArtifacts(sources[p]).value])
    ELSE Raised

Configs ==
    {Config(g, t, <<(<<"g", "b", "jar", "*">>)>>, s, <<(<<"g", "b">>)>>, r) :
        g \in {<<>>, <<(<<"g", "a", "1.0">>)>>, <<(<<"g", "a", "jar", "1.0">>)>>,
               <<(<<"g", "*", "1.1">>), (<<"g", "b", "jar", "sources", "*">>)>>},
        t \in {{}, {"jar"}},
        s \in BOOLEAN,
        r \in {<<>>, <<"R1", "R2">>}}

\* The state buildList leaves when it has returned the structure of the
\* declared sources
BuildListReturned ==
    /\ buildListOutcome(artifactSources).ok
    /\ pc = "returned"
    /\ priority = N
    /\ pool_dict = [t \in {artifactSources[i].type : i \in 1..N} |-> "CLOSE"]
    /\ errors = N
    /\ queues = [i \in 1..MaxSources |->
                    IF i <= N /\ ~readArtifacts(artifactSources[i]).ok THEN 1 ELSE 0]
    /\ tasks = [k \in 1..N |->
                    [source |-> k, priority |-> k, errors |-> k,
                     state |-> IF readArtifacts(artifactSources[k]).ok THEN "done"
                               ELSE "raised"]]
    /\ results = [p \in {i \in 1..N : readArtifacts(artifactSources[i]).ok} |->
                    readArtifacts(artifactSources[p]).value]
    /\ results_lock = 0
    /\ ret = [kind |-> "list", count |-> 0,
              artifactList |-> buildListOutcome(artifactSources).value]

\* filter.py line 14: filter is called with the structure buildList returned
FilterCalled ==
    /\ artifactList = buildListOutcome(artifactSources).value
    /\ fpc = "excludedGAVs"
    /\ stageLog = <<>>
    /\ pending = {}
    /\ delArtifacts = <<>>

InitFilter ==
    /\ artifactSources \in SeqsUpTo(FilterSourceChoices, MaxFilterSources)
    /\ BuildListReturned
    /\ config \in Configs
    /\ FilterCalled
    /\ CallIdle

\* filter.py lines 23-24
FilterExcludedGAVs ==
    /\ fpc = "excludedGAVs"
    /\ IF config.excludedGAVs # <<>>
       THEN /\ artifactList' = _filterExcludedGAVs(artifactList, config.excludedGAVs)
            /\ stageLog' = Append(stageLog, "excludedGAVs")
       ELSE UNCHANGED <<artifactList, stageLog>>
    /\ fpc' = "excludedTypes"
    /\ UNCHANGED <<config, pending, delArtifacts>>
    /\ UNCHANGED <<builderVars, callVars>>

\* FilterExcludedTypes run under the condition of the stage before it
FilterExcludedTypesWrongGate ==
    /\ fpc = "excludedTypes"
    /\ IF config.excludedGAVs # <<>>
       THEN /\ artifactList' = _filterExcludedTypes(artifactList, config.excludedTypes,
                                                    config.gatcvWhitelist)
            /\ stageLog' = Append(stageLog, "excludedTypes")
       ELSE UNCHANGED <<artifactList, stageLog>>
    /\ fpc' = "duplicates"
    /\ UNCHANGED <<config, pending, delArtifacts>>
    /\ UNCHANGED <<builderVars, callVars>>

\* filter.py lines 26-27
FilterExcludedTypes ==
    /\ fpc = "excludedTypes"
    /\ IF config.excludedTypes # {}
       THEN /\ artifactList' = _filterExcludedTypes(artifactList, config.excludedTypes,
                                                    config.gatcvWhitelist)
            /\ stageLog' = Append(stageLog, "excludedTypes")
       ELSE UNCHANGED <<artifactList, stageLog>>
    /\ fpc' = "duplicates"
    /\ UNCHANGED <<config, pending, delArtifacts>>
    /\ UNCHANGED <<builderVars, callVars>>

\* filter.py line 29
FilterDuplicates ==
    /\ fpc = "duplicates"
    /\ artifactList' = _filterDuplicates(artifactList)
    /\ stageLog' = Append(stageLog, "duplicates")
    /\ fpc' = "multipleVersions"
    /\ UNCHANGED <<config, pending, delArtifacts>>
    /\ UNCHANGED <<builderVars, callVars>>

\* filter.py lines 31-32
FilterMultipleVersions ==
    /\ fpc = "multipleVersions"
    /\ IF config.singleVersion
       THEN /\ artifactList' = _filterMultipleVersions(artifactList, config.multiVersionGAs)
            /\ stageLog' = Append(stageLog, "multipleVersions")
       ELSE UNCHANGED <<artifactList, stageLog>>
    /\ fpc' = "excludedRepositories"
    /\ UNCHANGED <<config, pending, delArtifacts>>
    /\ UNCHANGED <<builderVars, callVars>>

\* The probes _filterExcludedRepositories submits: one per version entry
Probes(al) ==
    UNION {UNION {{[artifact |-> MavenArtifact(ga[1], ga[2], "pom", v, ""), priority |-> p] :
                        v \in DOMAIN al[ga][p]} : p \in DOMAIN al[ga]} : ga \in DOMAIN al}

\* filter.py lines 34-35 and 160-175: the stage submits its probes to its
\* pool; without excluded repositories filter returns (line 37).
FilterExcludedRepositories ==
    /\ fpc = "excludedRepositories"
    /\ IF config.excludedRepositories # <<>>
       THEN /\ pending' = Probes(artifactList)
            /\ delArtifacts' = <<>>
            /\ stageLog' = Append(stageLog, "excludedRepositories")
            /\ fpc' = "probing"
       ELSE /\ fpc' = "done"
            /\ UNCHANGED <<pending, delArtifacts, stageLog>>
    /\ UNCHANGED <<config, artifactList>>
    /\ UNCHANGED <<builderVars, callVars>>

\* _artifactInRepos that asks the first repository only
ArtifactInReposFirstOnly(t) ==
    /\ fpc = "probing"
    /\ t \in pending
    /\ pending' = pending \ {t}
    /\ delArtifacts' =
          IF gavExists(config.excludedRepositories[1], t.artifact)
          THEN Append(delArtifacts, <<t.artifact, t.priority>>)
          ELSE delArtifacts
    /\ UNCHANGED <<config, artifactList, fpc, stageLog>>
    /\ UNCHANGED <<builderVars, callVars>>

\* _artifactInRepos in a thread of the pool (probes run in any order)
ArtifactInRepos(t) ==
    /\ fpc = "probing"
    /\ t \in pending
    /\ pending' = pending \ {t}
    /\ delArtifacts' =
          IF \E i \in 1..Len(config.excludedRepositories) :
                gavExists(config.excludedRepositories[i], t.artifact)
          THEN Append(delArtifacts, <<t.artifact, t.priority>>)
          ELSE delArtifacts
    /\ UNCHANGED <<config, artifactList, fpc, stageLog>>
    /\ UNCHANGED <<builderVars, callVars>>

\* filter.py lines 176-189 and 37: after pool.join() the found entries are
\* removed and filter returns.
RemoveFound ==
    /\ fpc = "probing"
    /\ pending = {}
    /\ artifactList' = removeFound(artifactList, delArtifacts)
    /\ fpc' = "done"
    /\ UNCHANGED <<config, stageLog, pending, delArtifacts>>
    /\ UNCHANGED <<builderVars, callVars>>

NextFilter ==
    \/ FilterExcludedGAVs
    \/ FilterExcludedTypes
    \/ FilterDuplicates
    \/ FilterMultipleVersions
    \/ FilterExcludedRepositories
    \/ \E t \in pending : ArtifactInRepos(t)
    \/ RemoveFound

SpecFilter == InitFilter /\ [][NextFilter]_vars

-----------------------------------------------------------------------------
(* Filter.filter with singleVersion set, on structures with up to three
   versions of a group:artifact *)

MaxVersionSources == 3

\* The declared sources of the runs of the single-version filter
VersionSourceChoices ==
    {Source("repository", FALSE,
            <<Entry("g", "a", "1.0", jarPom, "X", <<>>),
              Entry("g", "a", "1.2", jarPom, "X", <<>>),
              Entry("g", "a", "1.1", jarPom, "X", <<>>)>>, <<>>),
     Source("repository", FALSE,
            <<Entry("g", "a", "1.1", jarPom, "Y", <<>>),
              Entry("g", "b", "1.0", jarPom, "Y", <<>>),
              Entry("g", "b", "1.1", jarPom, "Y", <<>>)>>, <<>>),
     Source("repository", FALSE,
            <<Entry("g", "a", "1.3", pomOnly, "Z", <<>>),
              Entry("g", "b", "1.2", pomOnly, "Z", <<>>)>>, <<>>),
     Source("repository", FALSE,
            <<Entry("g", "b", "1.1", jarPom, "Z", <<>>),
              Entry("g", "b", "1.2", jarPom, "Z", <<>>)>>, <<>>)}

VersionConfigs ==
    {Config(<<>>, {}, <<>>, TRUE, m, r) :
        m \in {<<>>, <<(<<"g", "b">>)>>},
        r \in {<<>>, <<"R1", "R2">>}}

InitVersions ==
    /\ artifactSources \in SeqsUpTo(VersionSourceChoices, MaxVersionSources)
    /\ BuildListReturned
    /\ config \in VersionConfigs
    /\ FilterCalled
    /\ CallIdle

SpecVersions == InitVersions /\ [][NextFilter]_vars

-----------------------------------------------------------------------------
(* Filter.filter with excludedTypes set, on entries with several main types *)

MaxTypeSources == 3

jarWarPom ==
    [ext \in {"jar", "war", "pom"} |-> IF ext = "jar" THEN {"", "sources"} ELSE {""}]

warPom == [ext \in {"war", "pom"} |-> {""}]

\* The declared sources of the runs of the excluded-type filter
TypeSourceChoices ==
    {Source("repository", FALSE,
            <<Entry("g", "a", "1.0", jarWarPom, "X", <<>>)>>, <<>>),
     Source("repository", FALSE,
            <<Entry("g", "a", "1.0", jarPom, "Y", <<>>),
              Entry("g", "b", "1.0", warPom, "Y", <<>>)>>, <<>>),
     Source("repository", FALSE,
            <<Entry("g", "a", "1.1", pomOnly, "Z", <<>>),
              Entry("g", "b", "1.0", sourcesOnly, "Z", <<>>)>>, <<>>)}

TypeConfigs ==
    {Config(<<>>, t, w, FALSE, <<>>, r) :
        t \in {{"jar"}, {"war"}, {"jar", "war"}},
        w \in {<<>>, <<(<<"g", "a", "jar", "sources", "*">>)>>, <<(<<"g", "*", "jar", "*">>)>>},
        r \in {<<>>, <<"R1", "R2">>}}

InitTypes ==
    /\ artifactSources \in SeqsUpTo(TypeSourceChoices, MaxTypeSources)
    /\ BuildListReturned
    /\ config \in TypeConfigs
    /\ FilterCalled
    /\ CallIdle

SpecTypes == InitTypes /\ [][NextFilter]_vars

-----------------------------------------------------------------------------
(* Methods called on their own *)

\* no buildList is running
BuilderIdle ==
    /\ artifactSources = <<>>
    /\ pc = "idle"
    /\ priority = 0
    /\ pool_dict = EmptyDict
    /\ errors = 0
    /\ queues = [i \in 1..MaxSources |-> 0]
    /\ tasks = <<>>
    /\ results = EmptyDict
    /\ results_lock = 0
    /\ ret = NoRet

\* the artTypes _addArtifact makes of the extensions and classifiers of a
\* coordinate
artTypesOf(extsAndClass) ==
    LET pomMain == ~(Cardinality(DOMAIN extsAndClass) > 1
                     /\ _containsMainArtifact(extsAndClass)
                     /\ "pom" \in DOMAIN extsAndClass)
    IN  [ext \in DOMAIN extsAndClass |->
            ArtifactType(ext, mainOf(ext, extsAndClass[ext], pomMain), extsAndClass[ext])]

\* The specs merge is called with: with and without repository URL, with
\* no, one and two types, with and without paths
MergeUrls == {"", "X", "Y"}

MergeArtTypes ==
    {EmptyDict, artTypesOf(pomOnly), artTypesOf(sourcesOnly), artTypesOf(jarPom),
     artTypesOf([ext \in {"war"} |-> {""}])}

MergeSpecs(paths) ==
    {[url |-> u, artTypes |-> t, paths |-> p] :
        u \in MergeUrls, t \in MergeArtTypes, p \in {<<>>, <<paths>>}}

InitMerge ==
    /\ BuilderIdle
    /\ FilterIdle
    /\ op = "merge"
    /\ args \in [self : MergeSpecs(pathA), other : MergeSpecs(pathB)]
    /\ result = <<>>
    /\ cpc = "called"
    /\ locals = <<>>

\* ArtifactSpec.merge: it raises, or the receiver is as merge leaves it
ArtifactSpecMerge ==
    /\ op = "merge"
    /\ cpc = "called"
    /\ result' = IF mergeRaises(args.self, args.other) THEN Raised
                 ELSE Ok(merge(args.self, args.other))
    /\ cpc' = "returned"
    /\ UNCHANGED <<op, args, locals>>
    /\ UNCHANGED <<builderVars, filterVars>>

NextMerge == ArtifactSpecMerge

SpecMerge == InitMerge /\ [][NextMerge]_vars

-----------------------------------------------------------------------------
(* ArtifactListBuilder._listRepository over local repositories *)

MaxRepoUrls == 3

RepoUrls == {"file://U1/", "file://U2/", "file://U3/"}

\* What the directory trees of the repositories hold
RepoListing(url) ==
    CASE url = "file://U1/" ->
            <<Entry("g", "a", "1.0", jarPom, url, <<>>),
              Entry("g", "b", "1.0", pomOnly, url, <<>>)>>
      [] url = "file://U2/" ->
            <<Entry("g", "a", "1.0", jarSourcesPom, url, <<>>),
              Entry("g", "a", "1.1", jarPom, url, <<>>)>>
      [] url = "file://U3/" ->
            <<Entry("g", "b", "1.0", jarPom, url, <<>>)>>

\* whether the sequence p is the beginning of the sequence t
StartsWith(t, p) == Len(p) <= Len(t) /\ SubSeq(t, 1, Len(p)) = p

\* the directory a pattern without regular expression leads to: the
\* segments before its first "*", three at most
prefixOf(pattern) ==
    LET stars == {i \in 1..Len(pattern) : pattern[i] = "*"}
        n == IF stars = {} THEN Len(pattern) ELSE Min(stars) - 1
    IN  SubSeq(pattern, 1, IF n > 3 THEN 3 ELSE n)

\* ArtifactListBuilder._getPrefixes: the directories to scan, none of them
\* inside another; the root when a pattern leads to no directory
_getPrefixes(gavPatterns) ==
    LET patterns == {prefixOf(gavPatterns[i]) : i \in 1..Len(gavPatterns)}
    IN  IF gavPatterns = <<>> \/ <<>> \in patterns THEN {<<>>}
        ELSE {q \in patterns : \A r \in patterns : r # q => ~StartsWith(q, r)}

\* ArtifactListBuilder._listLocalRepository: the coordinates found under
\* the directory prefix of the repository
_listLocalRepository(url, prefix) ==
    collect(SelectSeq(RepoListing(url),
                      LAMBDA e : StartsWith(<<e.groupId, e.artifactId, e.version>>,
                                            prefix))).value

\* dict.update on the dicts kept as sequences of pairs
RECURSIVE update(_, _)
update(artifacts, other) ==
    IF other = <<>> THEN artifacts
    ELSE LET key == Head(other)[1]
         IN  update(IF key \in DictKeys(artifacts)
                    THEN [artifacts EXCEPT ![DictIndex(artifacts, key)] =
                            <<artifacts[DictIndex(artifacts, key)][1], Head(other)[2]>>]
                    ELSE Append(artifacts, Head(other)),
                    Tail(other))

\* lines 537-539: the loop over the prefixes for one repository
RECURSIVE listPrefixes(_, _, _)
listPrefixes(artifacts, url, prefixes) ==
    IF prefixes = {} THEN artifacts
    ELSE LET prefix == CHOOSE q \in prefixes : TRUE
         IN  listPrefixes(update(artifacts, _listLocalRepository(url, prefix)),
                          url, prefixes \ {prefix})

\* ArtifactListBuilder._filterArtifactsByPatterns with GAV patterns
_filterArtifactsByPatterns(artifacts, gavPatterns) ==
    IF gavPatterns = <<>> THEN artifacts
    ELSE SelectSeq(artifacts, LAMBDA kv : somethingMatch(gavPatterns, getGAV(kv[1])))

\* the loop of _listRepository taking the repositories in list order
RECURSIVE listReposInListOrder(_, _, _)
listReposInListOrder(artifacts, repoUrls, prefixes) ==
    IF repoUrls = <<>> THEN artifacts
    ELSE listReposInListOrder(listPrefixes(artifacts, Head(repoUrls), prefixes),
                              Tail(repoUrls), prefixes)

\* lines 535-549: the loop over reversed(repoUrls)
RECURSIVE listRepos(_, _, _)
listRepos(artifacts, repoUrls, prefixes) ==
    IF repoUrls = <<>> THEN artifacts
    ELSE listRepos(listPrefixes(artifacts, repoUrls[Len(repoUrls)], prefixes),
                   SubSeq(repoUrls, 1, Len(repoUrls) - 1), prefixes)

\* ArtifactListBuilder._listRepository without GATCVs
_listRepository(repoUrls, gavPatterns) ==
    _filterArtifactsByPatterns(listRepos(<<>>, repoUrls, _getPrefixes(gavPatterns)),
                               gavPatterns)

InitRepository ==
    /\ BuilderIdle
    /\ FilterIdle
    /\ op = "_listRepository"
    /\ args \in [repoUrls : SeqsUpTo(RepoUrls, MaxRepoUrls),
                  gavPatterns : {<<>>, <<(<<"g", "a", "*">>)>>,
                                 <<(<<"g", "a", "*">>), (<<"g", "b", "1.0">>)>>}]
    /\ result = <<>>
    /\ cpc = "called"
    /\ locals = <<>>

ListRepository ==
    /\ op = "_listRepository"
    /\ cpc = "called"
    /\ result' = Ok(_listRepository(args.repoUrls, args.gavPatterns))
    /\ cpc' = "returned"
    /\ UNCHANGED <<op, args, locals>>
    /\ UNCHANGED <<builderVars, filterVars>>

NextRepository == ListRepository

SpecRepository == InitRepository /\ [][NextRepository]_vars

-----------------------------------------------------------------------------
(* ArtifactListBuilder._listDependencies: the loop over the working set.    *)
(* The Maven run, the fetch of the POM and the listing tool are the world:  *)
(* args says for which coordinates they fail.                               *)

\* MavenArtifact.createFromGAV on groupId:artifactId:[type:][classifier:]version[:scope]
createFromGAV(gav) ==
    LET scopes == {"compile", "test", "provided", "runtime", "system", "import"}
        effectiveParts == IF gav[Len(gav)] \in scopes THEN Len(gav) - 1 ELSE Len(gav)
    IN  IF effectiveParts = 3 THEN MavenArtifact(gav[1], gav[2], "", gav[3], "")
        ELSE IF effectiveParts = 4 THEN MavenArtifact(gav[1], gav[2], gav[3], gav[4], "")
        ELSE MavenArtifact(gav[1], gav[2], gav[3], gav[5], gav[4])

DepRepoUrls == <<"D1", "D2">>

\* _parseDepList of what mvn dependency:list writes for the POM of a
\* coordinate: the listed GAVs without their scopes
DepList(gav) ==
    CASE gav = <<"g", "a", "1.0">> ->
            <<(<<"g", "b", "jar", "1.0">>), (<<"g", "c", "pom", "1.0">>),
              (<<"g", "d", "jar", "1.0">>)>>
      [] gav = <<"g", "b", "1.0">> -> <<(<<"g", "a", "jar", "1.0">>)>>
      [] OTHER -> <<>>

\* What the listing tool finds in the directory of a coordinate
DirFiles(artifact) ==
    CASE getGAV(artifact) = <<"g", "a", "1.0">> -> jarPom
      [] getGAV(artifact) = <<"g", "b", "1.0">> -> jarSourcesPom
      [] OTHER -> pomOnly

\* ArtifactListBuilder._listArtifacts: every GAV of the list that a
\* repository has, with the first repository that has it
RECURSIVE _listArtifacts(_, _)
_listArtifacts(urls, gavs) ==
    IF gavs = <<>> THEN <<>>
    ELSE LET artifact == createFromGAV(gavs[Len(gavs)])
             before == _listArtifacts(urls, SubSeq(gavs, 1, Len(gavs) - 1))
             found == {i \in 1..Len(urls) : gavExists(urls[i], artifact)}
         IN  IF found = {} THEN before
             ELSE update(before,
                         <<(<<artifact,
                              ArtifactSpec(urls[Min(found)],
                                           [t \in {artifact.artifactType} |->
                                               ArtifactType(artifact.artifactType, TRUE, {""})])>>)>>)

\* lines 354-386: with all classifiers asked for, the new artifacts are
\* listed again from the files of their directories
RECURSIVE withAllClassifiers(_, _, _)
withAllClassifiers(newArtifacts, lftpFails, skipmissing) ==
    IF newArtifacts = <<>> THEN Ok(<<>>)
    ELSE LET before == withAllClassifiers(SubSeq(newArtifacts, 1, Len(newArtifacts) - 1),
                                          lftpFails, skipmissing)
             artifact == newArtifacts[Len(newArtifacts)][1]
             spec == newArtifacts[Len(newArtifacts)][2]
         IN  IF ~before.ok THEN Raised
             ELSE IF getGAV(artifact) \in lftpFails
                  THEN IF skipmissing THEN before ELSE Raised
                  ELSE IF artifact.artifactType \in DOMAIN DirFiles(artifact)
                       THEN _addArtifact(before.value, artifact.groupId, artifact.artifactId,
                                         artifact.version, DirFiles(artifact), None, spec.url)
                       ELSE before

DepGavs == {<<"g", "a", "1.0">>, <<"g", "b", "1.0">>, <<"g", "c", "1.0">>}

InitDependencies ==
    /\ BuilderIdle
    /\ FilterIdle
    /\ op = "_listDependencies"
    /\ args \in [gavs : {{<<"g", "a", "1.0">>}, {<<"g", "b", "1.0">>},
                          {<<"g", "a", "1.0">>, <<"g", "c", "1.0">>}},
                  recursive : BOOLEAN,
                  skipmissing : BOOLEAN,
                  allClassifiers : BOOLEAN,
                  noPom : {{}, {<<"g", "c", "1.0">>}},
                  mvnFails : SUBSET {<<"g", "a", "1.0">>, <<"g", "b", "1.0">>},
                  lftpFails : {{}, {<<"g", "b", "1.0">>}}]
    /\ result = <<>>
    /\ cpc = "called"
    /\ locals = [artifacts |-> <<>>, workingSet |-> args.gavs, checkedSet |-> {}]

\* the GAVs of all the new artifacts, checked or not
newWorkWithChecked(newArtifacts, checkedSet) ==
    {getGAV(newArtifacts[i][1]) : i \in 1..Len(newArtifacts)}

\* the new entries of the working set: the GAVs of the new artifacts that
\* are not checked yet
newWork(newArtifacts, checkedSet) ==
    {getGAV(newArtifacts[i][1]) : i \in 1..Len(newArtifacts)} \ checkedSet

\* one iteration of the loop in which a failed Maven run raises
ListDependenciesOfRaising(gav) ==
    /\ op = "_listDependencies"
    /\ cpc = "called"
    /\ gav \in locals.workingSet
    /\ LET checkedSet == locals.checkedSet \cup {gav}
           workingSet == locals.workingSet \ {gav}
           newArtifacts == _listArtifacts(DepRepoUrls, DepList(gav))
           resulting == IF args.allClassifiers
                        THEN withAllClassifiers(newArtifacts, args.lftpFails, args.skipmissing)
                        ELSE Ok(newArtifacts)
       IN  IF gav \in args.noPom
           THEN /\ locals' = [locals EXCEPT !.workingSet = workingSet,
                                            !.checkedSet = checkedSet]
                /\ UNCHANGED <<result, cpc>>
           ELSE IF gav \in args.mvnFails \/ ~resulting.ok
                THEN /\ result' = Raised
                     /\ cpc' = "returned"
                     /\ locals' = [locals EXCEPT !.workingSet = workingSet,
                                                 !.checkedSet = checkedSet]
                ELSE /\ locals' =
                          [artifacts |-> update(locals.artifacts, resulting.value),
                           workingSet |-> IF args.recursive
                                          THEN workingSet \cup newWork(newArtifacts, checkedSet)
                                          ELSE workingSet,
                           checkedSet |-> checkedSet]
                     /\ UNCHANGED <<result, cpc>>
    /\ UNCHANGED <<op, args>>
    /\ UNCHANGED <<builderVars, filterVars>>

\* lines 291-388: one iteration of the loop, for the popped GAV
ListDependenciesOf(gav) ==
    /\ op = "_listDependencies"
    /\ cpc = "called"
    /\ gav \in locals.workingSet
    /\ \E newArtifacts \in {_listArtifacts(DepRepoUrls, DepList(gav))} :
       \E resulting \in {IF args.allClassifiers
                        THEN withAllClassifiers(newArtifacts, args.lftpFails, args.skipmissing)
                        ELSE Ok(newArtifacts)} :
       LET checkedSet == locals.checkedSet \cup {gav}
           workingSet == locals.workingSet \ {gav}
       IN  IF gav \in args.noPom \/ gav \in args.mvnFails
           THEN /\ locals' = [locals EXCEPT !.workingSet = workingSet,
                                            !.checkedSet = checkedSet]
                /\ UNCHANGED <<result, cpc>>
           ELSE IF ~resulting.ok
                THEN /\ result' = Raised
                     /\ cpc' = "returned"
                     /\ locals' = [locals EXCEPT !.workingSet = workingSet,
                                                 !.checkedSet = checkedSet]
                ELSE /\ locals' =
                          [artifacts |-> update(locals.artifacts, resulting.value),
                           workingSet |-> IF args.recursive
                                          THEN workingSet \cup newWork(newArtifacts, checkedSet)
                                          ELSE workingSet,
                           checkedSet |-> checkedSet]
                     /\ UNCHANGED <<result, cpc>>
    /\ UNCHANGED <<op, args>>
    /\ UNCHANGED <<builderVars, filterVars>>

\* line 390: the working set is empty
ListDependenciesReturn ==
    /\ op = "_listDependencies"
    /\ cpc = "called"
    /\ locals.workingSet = {}
    /\ result' = Ok(locals.artifacts)
    /\ cpc' = "returned"
    /\ UNCHANGED <<op, args, locals>>
    /\ UNCHANGED <<builderVars, filterVars>>

NextDependencies ==
    \/ \E gav \in DepGavs : ListDependenciesOf(gav)
    \/ ListDependenciesReturn

SpecDependencies == InitDependencies /\ [][NextDependencies]_vars

\* the loop goes on while the working set is not empty: fetchFile, mvn and
\* the listing tool are waited for and answer
FairSpecDependencies == SpecDependencies /\ WF_vars(NextDependencies)

-----------------------------------------------------------------------------
(* indy_apis.py: IndyApi.urlmap_response and IndyApi.paths_response, with   *)
(* UrlRequester._request under them.  The graph service is the world: args  *)
(* holds the responses it gives to the requests of the call, in order.      *)

MaxResponses == 3

IndyHost == "indy"

\* the Location header of a response: absent, without a scheme, or absolute
NoLocation == [host |-> None, path |-> None]

Locations == {NoLocation, [host |-> "", path |-> "/moved"], [host |-> "mirror", path |-> "/moved"]}

\* an httplib.HTTPResponse: status, content and Location header
Response(status, content, location) ==
    [status |-> status, content |-> content, location |-> location]

Responses ==
    {Response(200, content, NoLocation) : content \in {"{}", "{projects}"}}
        \cup {Response(status, "error", NoLocation) : status \in {404, 500}}
        \cup {Response(status, "", location) : status \in {301, 302}, location \in Locations}

\* the service answers every request of the call: its last answer is not a
\* redirect to follow
ServiceScripts ==
    {s \in [1..MaxResponses -> Responses] :
        ~(s[MaxResponses].status \in {301, 302} /\ s[MaxResponses].location # NoLocation)}

\* lines 43-47 of _request: the target of a redirect
redirectTarget(url, location) ==
    IF location.host = "" THEN [host |-> url.host, path |-> location.path] ELSE location

\* the methods that post a query, and the methods that call them
ResponseMethods == {"urlmap_response", "paths_response"}

WrapperMethods == {"urlmap", "urlmap_nocache", "paths", "paths_nocache"}

\* the *_response method a call runs
queryOf(method) ==
    IF method \in {"urlmap_response", "urlmap", "urlmap_nocache"} THEN "urlmap_response"
    ELSE "paths_response"

\* the URL the method posts to first (lines 253 and 396)
firstUrl(method) ==
    [host |-> IndyHost,
     path |-> IF queryOf(method) = "urlmap_response" THEN "api/depgraph/repo/urlmap"
              ELSE "api/depgraph/repo/paths"]

\* data = json.dumps(request), lines 255-276 and 398-456: the request of the
\* query with the workspace id in it
requestData(method, wsid) == [query |-> queryOf(method), workspaceId |-> wsid]

\* a request without data (line 75)
NoData == [query |-> None, workspaceId |-> None]

InitIndy ==
    /\ BuilderIdle
    /\ FilterIdle
    /\ op \in ResponseMethods
    /\ args \in [responses : ServiceScripts]
    /\ result = <<>>
    /\ cpc = "post"
    /\ locals = [url |-> firstUrl(op), data |-> requestData(op, "ws"),
                 requests |-> 0, sent |-> <<>>, retried |-> FALSE]

\* UrlRequester._request, one request of self._postUrl or self._deleteUrl:
\* a redirect is followed by the same request to its target, any other
\* response is returned to the method
IndyRequest ==
    /\ op \in ResponseMethods \cup WrapperMethods
    /\ cpc \in {"post", "delete"}
    /\ locals.requests < Len(args.responses)
    /\ LET response == args.responses[locals.requests + 1]
           request == [method |-> IF cpc = "post" THEN "POST" ELSE "DELETE",
                       url |-> locals.url,
                       data |-> IF cpc = "post" THEN locals.data ELSE NoData]
           sent == Append(locals.sent, request)
       IN  IF response.status \in {301, 302}
           THEN IF response.location = NoLocation
                THEN /\ result' = Raised
                     /\ cpc' = "returned"
                     /\ locals' = [locals EXCEPT !.requests = @ + 1, !.sent = sent]
                ELSE /\ locals' = [locals EXCEPT
                                      !.requests = @ + 1,
                                      !.sent = sent,
                                      !.url = redirectTarget(locals.url, response.location)]
                     /\ UNCHANGED <<result, cpc>>
           ELSE /\ locals' = DictUpdate(locals, [requests |-> locals.requests + 1,
                                                 sent |-> sent,
                                                 response |-> response])
                /\ cpc' = IF cpc = "post" THEN "response" ELSE "parse"
                /\ UNCHANGED result
    /\ UNCHANGED <<op, args>>
    /\ UNCHANGED <<builderVars, filterVars>>

\* the retry of paths_response after any status that is not 200
IndyRetryOnFailure ==
    /\ queryOf(op) = "paths_response"
    /\ cpc = "response"
    /\ ~locals.retried
    /\ locals.response.status # 200
    /\ locals' = [locals EXCEPT !.url = [host |-> IndyHost, path |-> "api/depgraph/graph/paths"],
                                !.retried = TRUE]
    /\ cpc' = "post"
    /\ UNCHANGED <<op, args, result>>
    /\ UNCHANGED <<builderVars, filterVars>>

\* paths_response, lines 462-464: after 404 the request goes to the other path
IndyRetry ==
    /\ queryOf(op) = "paths_response"
    /\ cpc = "response"
    /\ ~locals.retried
    /\ locals.response.status = 404
    /\ locals' = [locals EXCEPT !.url = [host |-> IndyHost, path |-> "api/depgraph/graph/paths"],
                                !.retried = TRUE]
    /\ cpc' = "post"
    /\ UNCHANGED <<op, args, result>>
    /\ UNCHANGED <<builderVars, filterVars>>

\* the return that hands back the content of the response whatever its status
IndyReturnContent ==
    /\ op \in ResponseMethods \cup WrapperMethods
    /\ cpc = "response"
    /\ ~(queryOf(op) = "paths_response" /\ ~locals.retried /\ locals.response.status = 404)
    /\ IF op \in ResponseMethods
       THEN /\ result' = Ok(locals.response.content)
            /\ cpc' = "returned"
            /\ UNCHANGED locals
       ELSE /\ locals' = DictUpdate(locals, [responseContent |-> locals.response.content])
            /\ cpc' = IF op \in {"urlmap", "paths"} THEN "store" ELSE "cleanup"
            /\ UNCHANGED result
    /\ UNCHANGED <<op, args>>
    /\ UNCHANGED <<builderVars, filterVars>>

\* urlmap_response, lines 283-290, and paths_response, lines 466-473: the
\* content of a response of status 200, else "{}", goes back to the caller
IndyReturn ==
    /\ op \in ResponseMethods \cup WrapperMethods
    /\ cpc = "response"
    /\ ~(queryOf(op) = "paths_response" /\ ~locals.retried /\ locals.response.status = 404)
    /\ LET responseContent == IF locals.response.status = 200
                              THEN locals.response.content ELSE "{}"
       IN  IF op \in ResponseMethods
           THEN /\ result' = Ok(responseContent)
                /\ cpc' = "returned"
                /\ UNCHANGED locals
           ELSE /\ locals' = DictUpdate(locals, [responseContent |-> responseContent])
                /\ cpc' = IF op \in {"urlmap", "paths"} THEN "store" ELSE "cleanup"
                /\ UNCHANGED result
    /\ UNCHANGED <<op, args>>
    /\ UNCHANGED <<builderVars, filterVars>>

NextIndy ==
    \/ IndyRequest
    \/ IndyRetry
    \/ IndyReturn

SpecIndy == InitIndy /\ [][NextIndy]_vars

-----------------------------------------------------------------------------
(* indy_apis.py: IndyApi.urlmap, urlmap_nocache, paths and paths_nocache,   *)
(* the callers of the two methods above.  args holds the workspace id the   *)
(* caller passes, the cache file of the query as the call finds it, and the *)
(* responses of the service; locals.cacheFile is that file during the call. *)

MaxClientResponses == 4

\* no cache file of the query's name
NoFile == "NoFile"

CacheFiles == {NoFile, "", "{ projects }", "<html>"}

ClientResponses ==
    {Response(200, content, NoLocation) : content \in {"", "{ projects }"}}
        \cup {Response(status, "error", NoLocation) : status \in {404, 500}}
        \cup {Response(302, "", location) : location \in {NoLocation, [host |-> "", path |-> "/moved"]}}

\* a call ends on at most three answers that are not redirects (two posts and
\* the delete): the service answers every request of the call
ClientScripts ==
    {s \in [1..MaxClientResponses -> ClientResponses] :
        Cardinality({i \in 1..MaxClientResponses :
                        s[i].status = 302 /\ s[i].location # NoLocation})
            <= MaxClientResponses - 3}

\* json.loads: the parsed value, or ValueError
json_loads(content) ==
    CASE content = "{}" -> Ok([projects |-> <<>>])
      [] content \in {"{ projects }", "{projects}"} -> Ok([projects |-> <<"project">>])
      [] OTHER -> Raised

\* minimize_paths_json(raw_file), lines 684-687: what ./minimize-json.sh
\* prints for a file of this content (JSON without whitespace, and nothing
\* for what is not JSON)
minimize_paths_json(content) ==
    CASE content = "{}" -> "{}"
      [] content \in {"{ projects }", "{projects}"} -> "{projects}"
      [] OTHER -> ""

\* get_cached_urlmap and get_cached_paths: the cached response, or None
get_cached(method, cacheFile) ==
    IF cacheFile = NoFile THEN None
    ELSE IF method = "urlmap" THEN cacheFile
    ELSE minimize_paths_json(cacheFile)

InitIndyClient ==
    /\ BuilderIdle
    /\ FilterIdle
    /\ op \in WrapperMethods
    /\ args \in [wsid : {None, "ws"},
                 cache : IF op \in {"urlmap", "paths"} THEN CacheFiles ELSE {NoFile},
                 responses : ClientScripts]
    /\ result = <<>>
    /\ cpc = "called"
    /\ locals = [cacheFile |-> args.cache, requests |-> 0, sent |-> <<>>, retried |-> FALSE]

\* the test of the cache that takes only a cached response that parses
cacheHitOnParsableFile(method, cacheFile) ==
    method \in {"urlmap", "paths"} /\ json_loads(get_cached(method, cacheFile)).ok

\* whether urlmap and paths take the cached response (`if cached:`)
cacheHit(method, cacheFile) ==
    method \in {"urlmap", "paths"} /\ get_cached(method, cacheFile) \notin {None, ""}

\* urlmap lines 114-118, paths lines 297-302: the cached response is parsed
\* and returned
IndyCacheHit ==
    /\ op \in WrapperMethods
    /\ cpc = "called"
    /\ cacheHit(op, locals.cacheFile)
    /\ result' = json_loads(get_cached(op, locals.cacheFile))
    /\ cpc' = "returned"
    /\ UNCHANGED <<op, args, locals>>
    /\ UNCHANGED <<builderVars, filterVars>>

\* the start of a query that deletes the workspace whoever made it
IndyStartOwningWorkspace ==
    /\ op \in WrapperMethods
    /\ cpc = "called"
    /\ ~cacheHit(op, locals.cacheFile)
    /\ LET wsid == IF args.wsid = None THEN "temp" ELSE args.wsid
       IN  locals' = DictUpdate(locals, [deleteWS |-> TRUE,
                                         wsid |-> wsid,
                                         url |-> firstUrl(op),
                                         data |-> requestData(op, wsid)])
    /\ cpc' = "post"
    /\ UNCHANGED <<op, args, result>>
    /\ UNCHANGED <<builderVars, filterVars>>

\* urlmap lines 120-127, urlmap_nocache 188-196, paths 304-312 and
\* paths_nocache 327-335: without a workspace id one is generated and marked
\* for deletion, then the *_response method is called
IndyStart ==
    /\ op \in WrapperMethods
    /\ cpc = "called"
    /\ ~cacheHit(op, locals.cacheFile)
    /\ LET deleteWS == args.wsid = None
           wsid == IF deleteWS THEN "temp" ELSE args.wsid
       IN  locals' = DictUpdate(locals, [deleteWS |-> deleteWS,
                                         wsid |-> wsid,
                                         url |-> firstUrl(op),
                                         data |-> requestData(op, wsid)])
    /\ cpc' = "post"
    /\ UNCHANGED <<op, args, result>>
    /\ UNCHANGED <<builderVars, filterVars>>

\* urlmap lines 128-130 and paths lines 314-315: the response is written to
\* the cache file (by urlmap unless it is "{}")
IndyStore ==
    /\ op \in {"urlmap", "paths"}
    /\ cpc = "store"
    /\ locals' = [locals EXCEPT !.cacheFile =
                     IF op = "urlmap" /\ locals.responseContent = "{}" THEN @
                     ELSE locals.responseContent]
    /\ cpc' = "cleanup"
    /\ UNCHANGED <<op, args, result>>
    /\ UNCHANGED <<builderVars, filterVars>>

\* `if deleteWS: self.deleteWorkspace(wsid)`, up to the request (lines 97-100)
IndyCleanup ==
    /\ op \in WrapperMethods
    /\ cpc = "cleanup"
    /\ IF locals.deleteWS
       THEN /\ locals' = [locals EXCEPT
                            !.url = [host |-> IndyHost,
                                     path |-> "api/depgraph/ws/" \o locals.wsid]]
            /\ cpc' = "delete"
       ELSE /\ cpc' = "parse"
            /\ UNCHANGED locals
    /\ UNCHANGED <<op, args, result>>
    /\ UNCHANGED <<builderVars, filterVars>>

\* the return statements of the four methods (lines 137, 202, 321, 340):
\* paths parses the minimised cache file; paths_nocache calls
\* minimize_paths_json with raw_content, which uses the names tempfile and
\* someStuff that the module does not define, or passes None to Popen
IndyParse ==
    /\ op \in WrapperMethods
    /\ cpc = "parse"
    /\ result' = CASE op \in {"urlmap", "urlmap_nocache"} -> json_loads(locals.responseContent)
                   [] op = "paths" -> json_loads(minimize_paths_json(locals.cacheFile))
                   [] op = "paths_nocache" -> Raised
    /\ cpc' = "returned"
    /\ UNCHANGED <<op, args, locals>>
    /\ UNCHANGED <<builderVars, filterVars>>

NextIndyClient ==
    \/ IndyCacheHit
    \/ IndyStart
    \/ IndyRequest
    \/ IndyRetry
    \/ IndyReturn
    \/ IndyStore
    \/ IndyCleanup
    \/ IndyParse

SpecIndyClient == InitIndyClient /\ [][NextIndyClient]_vars

-----------------------------------------------------------------------------
(* indy_apis.py: get_urlmap_cache_filename and get_paths_cache_filename.    *)
(* A string is known by its length; a GAV also by the length of its         *)
(* groupId, the part before its first colon.                                *)

MaxRoots == 2

\* the GAV strings of the lists: total length and length of the groupId
GavStrings == {[len |-> 9, groupId |-> 3], [len |-> 100, groupId |-> 40],
               [len |-> 254, groupId |-> 100], [len |-> 255, groupId |-> 200]}

\* length of the parameters after the lists, joined by "_|_":
\* sourceKey ... injectedBOMs
RestLengths == {30, 220, 221, 231, 232}

\* len(sep.join(list)) for a separator of length sep
RECURSIVE joinLength(_, _)
joinLength(list, sep) ==
    IF list = <<>> THEN 0
    ELSE IF Len(list) = 1 THEN list[1].len
    ELSE joinLength(SubSeq(list, 1, Len(list) - 1), sep) + sep + list[Len(list)].len

\* len(hashlib.sha256(...).hexdigest())
hexdigestLength == 64

\* the key without its last fallback, the bare digest
cacheKeyWithoutBareDigest(method, roots, targets, rest) ==
    LET lists == IF method = "urlmap" THEN joinLength(roots, 1)
                 ELSE joinLength(roots, 1) + 3 + joinLength(targets, 1)
        limit == IF method = "urlmap" THEN 243 ELSE 244
        joined == lists + 3 + rest
        short == lists + 3 + hexdigestLength
    IN  IF joined <= limit THEN [form |-> "joined", len |-> joined]
        ELSE [form |-> "short", len |-> short]

\* lines 550-559 and 632-643: the key of the file name, its form and length
cacheKey(method, roots, targets, rest) ==
    LET lists == IF method = "urlmap" THEN joinLength(roots, 1)
                 ELSE joinLength(roots, 1) + 3 + joinLength(targets, 1)
        limit == IF method = "urlmap" THEN 243 ELSE 244
        joined == lists + 3 + rest
        short == lists + 3 + hexdigestLength
    IN  IF joined <= limit THEN [form |-> "joined", len |-> joined]
        ELSE IF short <= limit THEN [form |-> "short", len |-> short]
        ELSE [form |-> "digest", len |-> hexdigestLength]

\* lines 645-667: the directory name made of the leading elements of a list
\* (their lengths given), joined by "_|_", as long as it stays under 255
RECURSIVE dirLength(_, _)
dirLength(lengths, dir) ==
    IF lengths = <<>> THEN dir
    ELSE LET temp == IF dir # 0 THEN dir + 3 + lengths[1] ELSE lengths[1]
         IN  IF temp < 255 THEN dirLength(Tail(lengths), temp) ELSE dir

\* the lengths of the components of the returned path below CACHE_PATH
get_cache_filename(method, roots, targets, rest) ==
    LET key == cacheKey(method, roots, targets, rest)
    IN  IF method = "urlmap"
        THEN [key |-> key, file |-> 7 + key.len + 5]
        ELSE [key |-> key, file |-> 6 + key.len + 5,
              root_dir |-> dirLength([i \in 1..Len(roots) |-> roots[i].len], 0),
              target_dir |-> dirLength([i \in 1..Len(targets) |-> targets[i].groupId], 0)]

InitCacheFilename ==
    /\ BuilderIdle
    /\ FilterIdle
    /\ op \in {"get_urlmap_cache_filename", "get_paths_cache_filename"}
    /\ args \in [roots : SeqsUpTo(GavStrings, MaxRoots),
                 targets : IF op = "get_paths_cache_filename"
                           THEN SeqsUpTo(GavStrings, MaxRoots) ELSE {<<>>},
                 rest : RestLengths]
    /\ result = <<>>
    /\ cpc = "called"
    /\ locals = <<>>

GetCacheFilename ==
    /\ op \in {"get_urlmap_cache_filename", "get_paths_cache_filename"}
    /\ cpc = "called"
    /\ result' = Ok(get_cache_filename(IF op = "get_urlmap_cache_filename" THEN "urlmap" ELSE "paths",
                                       args.roots, args.targets, args.rest))
    /\ cpc' = "returned"
    /\ UNCHANGED <<op, args, locals>>
    /\ UNCHANGED <<builderVars, filterVars>>

NextCacheFilename == GetCacheFilename

SpecCacheFilename == InitCacheFilename /\ [][NextCacheFilename]_vars

-----------------------------------------------------------------------------
(* ArtifactListBuilder._getExtensionsAndClassifiers.  A file name is the    *)
(* sequence of its parts, the separators "-" and "." being parts of their   *)
(* own: a-1.0-sources.jar is <<"a", "-", "1.0", "-", "sources", ".", "jar">>. *)
(* The timestamp of a snapshot file is one part.                            *)

MaxFiles == 3

RECURSIVE Concat(_)
Concat(parts) == IF parts = <<>> THEN "" ELSE parts[1] \o Concat(Tail(parts))

\* the parts that match \d+\.\d+-\d+
Timestamps == {"20120101.1200-1", "20130101.1200-2"}

\* the order of Python 2 on the strings group(1) can be
suffixRank(realVersion) ==
    CASE realVersion = "20120101.1200-1" -> 1
      [] realVersion = "20130101.1200-2" -> 2
      [] realVersion = "SNAPSHOT" -> 3

\* _getArtifactVersionREString matched at the start of the file name:
\* whether it matches, group(1), and the parts after the match
matchArtifactVersion(artifactId, version, filename) ==
    LET snapshot == Len(version) >= 3 /\ version[Len(version)] = "SNAPSHOT"
                    /\ version[Len(version) - 1] = "-"
        n == Len(version) + 2
    IN  IF Len(filename) < n \/ SubSeq(filename, 1, 2) # <<artifactId, "-">>
        THEN [matched |-> FALSE]
        ELSE IF snapshot
        THEN IF SubSeq(filename, 3, n - 1) = SubSeq(version, 1, Len(version) - 1)
                /\ filename[n] \in {"SNAPSHOT"} \cup Timestamps
             THEN [matched |-> TRUE, realVersion |-> filename[n],
                   rest |-> SubSeq(filename, n + 1, Len(filename))]
             ELSE [matched |-> FALSE]
        ELSE IF SubSeq(filename, 3, n) = version
             THEN [matched |-> TRUE, realVersion |-> Concat(version),
                   rest |-> SubSeq(filename, n + 1, Len(filename))]
             ELSE [matched |-> FALSE]

\* position of the last "." of the parts, 0 if there is none
lastDot(rest) ==
    LET dots == {i \in 1..Len(rest) : rest[i] = "."}
    IN  IF dots = {} THEN 0 ELSE CHOOSE i \in dots : \A j \in dots : j <= i

\* checksumRegEx on the parts after artifactId-version: .+\.(md5|sha1|sha256|asc)$
checksumMatch(rest) ==
    /\ Len(rest) >= 3
    /\ rest[Len(rest) - 1] = "."
    /\ rest[Len(rest)] \in {"md5", "sha1", "sha256", "asc"}

\* (?:-(.+))? on the parts before the extension: nothing, or "-" and a
\* classifier that is not empty
classifierMatch(head) == head = <<>> \/ (Len(head) >= 2 /\ head[1] = "-")

classifierOf(head) == IF head = <<>> THEN None ELSE Concat(Tail(head))

\* ceRegEx1 and, if it does not match, ceRegEx2 on the parts after
\* artifactId-version: whether one matches, group(2) and group(3)
ceMatch(rest) ==
    LET d == lastDot(rest)
        tar == d >= 3 /\ d < Len(rest) /\ rest[d - 1] = "tar" /\ rest[d - 2] = "."
               /\ classifierMatch(SubSeq(rest, 1, d - 3))
        other == d >= 1 /\ d < Len(rest) /\ classifierMatch(SubSeq(rest, 1, d - 1))
    IN  IF tar
        THEN [matched |-> TRUE, classifier |-> classifierOf(SubSeq(rest, 1, d - 3)),
              ext |-> "tar." \o Concat(SubSeq(rest, d + 1, Len(rest)))]
        ELSE IF other
        THEN [matched |-> TRUE, classifier |-> classifierOf(SubSeq(rest, 1, d - 1)),
              ext |-> Concat(SubSeq(rest, d + 1, Len(rest)))]
        ELSE [matched |-> FALSE]

\* the suffix kept when the file read last decides
newSuffixOfLastFile(suffix, realVersion, version) ==
    IF realVersion # Concat(version) THEN realVersion ELSE suffix

\* lines 731-733: the suffix after a file of this group(1)
newSuffix(suffix, realVersion, version) ==
    IF realVersion # Concat(version)
       /\ (suffix = None \/ suffixRank(suffix) < suffixRank(realVersion))
    THEN realVersion
    ELSE suffix

\* the loop of lines 712-733 over the file names, from the first to the last
RECURSIVE _getExtensionsAndClassifiers(_, _, _)
_getExtensionsAndClassifiers(artifactId, version, filenames) ==
    IF filenames = <<>> THEN [extensions |-> <<>>, suffix |-> None]
    ELSE LET before == _getExtensionsAndClassifiers(artifactId, version,
                            SubSeq(filenames, 1, Len(filenames) - 1))
             av == matchArtifactVersion(artifactId, version, filenames[Len(filenames)])
             ce == ceMatch(av.rest)
             classifier == IF ce.classifier = None THEN "" ELSE ce.classifier
         IN  IF ~av.matched \/ checksumMatch(av.rest) \/ ~ce.matched THEN before
             ELSE [extensions |->
                      DictUpdate(before.extensions,
                                 [ext \in {ce.ext} |->
                                     (IF ce.ext \in DOMAIN before.extensions
                                      THEN before.extensions[ce.ext] ELSE {})
                                         \cup {classifier}]),
                   suffix |-> newSuffix(before.suffix, av.realVersion, version)]

Filenames ==
    {<<"a", "-", "1.0", ".", "jar">>,
     <<"a", "-", "1.0", ".", "jar", ".", "md5">>,
     <<"a", "-", "1.0", "-", "sources", ".", "jar">>,
     <<"a", "-", "1.0", "-", "test", "-", "sources", ".", "jar", ".", "asc">>,
     <<"a", "-", "1.0", "-", "src", ".", "tar", ".", "gz">>,
     <<"a", "-", "1.0", ".", "md5">>,
     <<"b", "-", "1.0", ".", "pom">>,
     <<"a", "-", "1.0", "-", "SNAPSHOT", ".", "jar">>,
     <<"a", "-", "1.0", "-", "20120101.1200-1", ".", "jar">>,
     <<"a", "-", "1.0", "-", "20130101.1200-2", ".", "pom">>,
     <<"a", "-", "1.0", "-", "20130101.1200-2", ".", "pom", ".", "sha1">>}

InitClassifiers ==
    /\ BuilderIdle
    /\ FilterIdle
    /\ op = "_getExtensionsAndClassifiers"
    /\ args \in [artifactId : {"a"},
                 version : {<<"1.0">>, <<"1.0", "-", "SNAPSHOT">>},
                 filenames : SeqsUpTo(Filenames, MaxFiles)]
    /\ result = <<>>
    /\ cpc = "called"
    /\ locals = <<>>

GetExtensionsAndClassifiers ==
    /\ op = "_getExtensionsAndClassifiers"
    /\ cpc = "called"
    /\ result' = Ok(_getExtensionsAndClassifiers(args.artifactId, args.version, args.filenames))
    /\ cpc' = "returned"
    /\ UNCHANGED <<op, args, locals>>
    /\ UNCHANGED <<builderVars, filterVars>>

NextClassifiers == GetExtensionsAndClassifiers

SpecClassifiers == InitClassifiers /\ [][NextClassifiers]_vars

-----------------------------------------------------------------------------
(* ArtifactListBuilder._addArtifact called on its own, on a collector's     *)
(* empty dictionary.                                                        *)

\* the dictionaries extension -> classifiers of a coordinate with a jar, a
\* pom, or both
AddArtifactChoices ==
    UNION {[exts -> (SUBSET {"", "sources", "foo"}) \ {{}}] :
              exts \in (SUBSET {"jar", "pom"}) \ {{}}}

InitAddArtifact ==
    /\ BuilderIdle
    /\ FilterIdle
    /\ op = "_addArtifact"
    /\ args \in [extsAndClass : AddArtifactChoices, url : {"X"}]
    /\ result = <<>>
    /\ cpc = "called"
    /\ locals = <<>>

AddArtifact ==
    /\ op = "_addArtifact"
    /\ cpc = "called"
    /\ result' = _addArtifact(<<>>, "g", "a", "1.0", args.extsAndClass, None, args.url)
    /\ cpc' = "returned"
    /\ UNCHANGED <<op, args, locals>>
    /\ UNCHANGED <<builderVars, filterVars>>

NextAddArtifact == AddArtifact

SpecAddArtifact == InitAddArtifact /\ [][NextAddArtifact]_vars

-----------------------------------------------------------------------------
(* maven_artifact.py: MavenArtifact.__eq__, __hash__ and __cmp__, and       *)
(* createFromGAV with getGAV and getGATCV after it.                         *)

\* MavenArtifact.__repr__: the repr of the five fields, None unlike ''
__repr__(self) ==
    <<self.groupId, self.artifactId, self.artifactType, self.version, self.classifier>>

\* MavenArtifact.__eq__, for an other that is not None
__eq__(self, other) == __repr__(self) = __repr__(other)

\* MavenArtifact.__cmp__, for an other that is not None
__cmp__(self, other) ==
    LET r == cmp(colonJoined(getGAV(self)), colonJoined(getGAV(other)))
    IN  IF r = 0 THEN cmp(colonJoined(getGATCV(self)), colonJoined(getGATCV(other))) ELSE r

\* the coordinates the program makes: without a type (None from _addArtifact
\* and createFromPomPath, '' from createFromGAV) and with one
ComparedArtifacts ==
    {MavenArtifact("g", a, t, v, c) :
        a \in {"a", "b"}, v \in {"1.0", "1.1"},
        t \in {None, "", "jar"}, c \in {"", "sources"}}
    \ {m \in [groupId : {"g"}, artifactId : {"a", "b"}, artifactType : {None, ""},
              version : {"1.0", "1.1"}, classifier : {"sources"}] : TRUE}

InitCompare ==
    /\ BuilderIdle
    /\ FilterIdle
    /\ op = "__cmp__"
    /\ args \in [self : ComparedArtifacts, other : ComparedArtifacts]
    /\ result = <<>>
    /\ cpc = "called"
    /\ locals = <<>>

\* self == other and cmp(self, other) of one pair
Compare ==
    /\ op = "__cmp__"
    /\ cpc = "called"
    /\ result' = Ok([eq |-> __eq__(args.self, args.other),
                     cmp |-> __cmp__(args.self, args.other)])
    /\ cpc' = "returned"
    /\ UNCHANGED <<op, args, locals>>
    /\ UNCHANGED <<builderVars, filterVars>>

NextCompare == Compare

SpecCompare == InitCompare /\ [][NextCompare]_vars

\* the scopes of createFromGAV
ScopeKeywords == {"compile", "test", "provided", "runtime", "system", "import"}

\* the segments of the GAV strings given to createFromGAV
GavSegments == {"", "g", "jar", "1.0", "test"}

GavStringsToParse == UNION {[1..n -> GavSegments] : n \in 3..5}

InitRoundTrip ==
    /\ BuilderIdle
    /\ FilterIdle
    /\ op = "createFromGAV"
    /\ args \in [gav : GavStringsToParse]
    /\ result = <<>>
    /\ cpc = "called"
    /\ locals = <<>>

\* createFromGAV, then getGAV and getGATCV of what it made
RoundTrip ==
    /\ op = "createFromGAV"
    /\ cpc = "called"
    /\ IF Len(args.gav) = 3 /\ args.gav[3] \in ScopeKeywords
       THEN result' = Raised   \* gavParts[3] of three parts: IndexError
       ELSE LET artifact == createFromGAV(args.gav)
            IN  result' = Ok([artifact |-> artifact, GAV |-> getGAV(artifact),
                              GATCV |-> getGATCV(artifact)])
    /\ cpc' = "returned"
    /\ UNCHANGED <<op, args, locals>>
    /\ UNCHANGED <<builderVars, filterVars>>

NextRoundTrip == RoundTrip

SpecRoundTrip == InitRoundTrip /\ [][NextRoundTrip]_vars

-----------------------------------------------------------------------------
(* artifact_list_builder.py: ArtifactListBuilder._getPrefixes on the         *)
(* characters of the patterns. Strings are sequences of characters.          *)

MaxPatterns == 3

\* the GAV patterns of the calls
PrefixPatterns ==
    {<<"a", ":", "b", ":", "1">>,   \* a:b:1
     <<"a", ":", "b", ":", "*">>,   \* a:b:*
     <<"a", ":", "*">>,   \* a:*
     <<"a", ".", "b", ":", "c">>,   \* a.b:c
     <<"a", "b", ":", "c">>,   \* ab:c
     <<"a", ":", "b", "*">>,   \* a:b*
     <<"*", ":", "b">>,   \* *:b
     <<"r", "/", "a", "\\", ".", "b", ":", "c", ".", "*", "/">>,   \* r/a\.b:c.*/
     <<"r", "/", ".", "*", "/">>}   \* r/.*/

\* str.replace of one character by another
replace(string, old, new) ==
    [i \in 1..Len(string) |-> IF string[i] = old THEN new ELSE string[i]]

\* str.find of a character: its first index (from 1), 0 where find gives -1
find(string, c) ==
    LET at == {i \in 1..Len(string) : string[i] = c}
    IN  IF at = {} THEN 0 ELSE Min(at)

\* str.split(":")
RECURSIVE split(_)
split(string) ==
    LET pos == find(string, ":")
    IN  IF pos = 0 THEN <<string>>
        ELSE <<SubSeq(string, 1, pos - 1)>> \o split(SubSeq(string, pos + 1, Len(string)))

\* str.rpartition("/")[0]: what is before the last slash, '' without a slash
rpartitionHead(string) ==
    LET at == {i \in 1..Len(string) : string[i] = "/"}
    IN  IF at = {} THEN <<>>
        ELSE SubSeq(string, 1, (CHOOSE i \in at : \A j \in at : j <= i) - 1)

\* repat, "^r/.*/$"
isRegExpPattern(pattern) ==
    Len(pattern) >= 3 /\ pattern[1] = "r" /\ pattern[2] = "/" /\ pattern[Len(pattern)] = "/"

\* the characters of [a-zA-Z0-9-] that the patterns have
WordChars == {"a", "b", "c", "1", "-"}

\* prefixrepat, "^(([a-zA-Z0-9-]+|\\.|:)+)": the length of group 1, 0 for no
\* match; a backslash takes any character after it
RECURSIVE readableLength(_)
readableLength(expr) ==
    IF expr = <<>> THEN 0
    ELSE IF expr[1] \in WordChars \cup {":"} THEN 1 + readableLength(Tail(expr))
    ELSE IF expr[1] = "\\" /\ Len(expr) >= 2 THEN 2 + readableLength(Tail(Tail(expr)))
    ELSE 0

\* lines 588-596: the pattern that a regular expression pattern is taken
\* for, <<>> when it has no readable start; any other pattern as it is
asteriskString(pattern) ==
    IF isRegExpPattern(pattern)
    THEN LET expr == SubSeq(pattern, 3, Len(pattern) - 1)
             kp == SubSeq(expr, 1, readableLength(expr))
         IN  IF kp = <<>> THEN <<>>
             ELSE SelectSeq(kp, LAMBDA c : c # "\\") \o <<"*">>
    ELSE pattern

\* lines 597-611: the directory of a pattern, '' (<<>>) when there is no
\* slash before the first star
directoryOfAsterisk(pattern) ==
    LET p == split(pattern)
        px == replace(p[1], ".", "/") \o <<"/">>
              \o (IF Len(p) >= 2 THEN p[2] \o <<"/">> ELSE <<>>)
              \o (IF Len(p) >= 3 THEN p[3] \o <<"/">> ELSE <<>>)
        pos == find(px, "*")
        cut == IF pos # 0 THEN SubSeq(px, 1, pos - 1) ELSE px
        head == rpartitionHead(cut)
    IN  IF head # <<>> THEN head \o <<"/">> ELSE <<>>

\* lines 587-611: one pass of the loop over gavPatterns
directoryOf(pattern) ==
    IF isRegExpPattern(pattern) /\ asteriskString(pattern) = <<>> THEN <<>>
    ELSE directoryOfAsterisk(asteriskString(pattern))

InitPrefixes ==
    /\ BuilderIdle
    /\ FilterIdle
    /\ op = "_getPrefixes"
    /\ args \in [gavPatterns : {<<>>} \cup SeqsUpTo(PrefixPatterns, MaxPatterns)]
    /\ result = <<>>
    /\ cpc = "called"
    /\ locals = [patterns |-> {}, prefixes |-> {}]

\* lines 583-611: the patterns are turned into directories; the root is
\* returned when there is no pattern or one of them gives no directory
GetPrefixesPatterns ==
    /\ op = "_getPrefixes"
    /\ cpc = "called"
    /\ LET directories == {directoryOf(args.gavPatterns[i]) : i \in 1..Len(args.gavPatterns)}
       IN  IF args.gavPatterns = <<>> \/ <<>> \in directories
           THEN /\ result' = Ok({<<>>})
                /\ cpc' = "returned"
                /\ UNCHANGED locals
           ELSE /\ locals' = [patterns |-> directories, prefixes |-> {}]
                /\ cpc' = "loop"
                /\ UNCHANGED result
    /\ UNCHANGED <<op, args>>
    /\ UNCHANGED <<builderVars, filterVars>>

\* a pass that compares the popped pattern with the kept prefixes only
GetPrefixesPopAgainstPrefixes(pattern) ==
    /\ op = "_getPrefixes"
    /\ cpc = "loop"
    /\ pattern \in locals.patterns
    /\ locals' = [patterns |-> locals.patterns \ {pattern},
                  prefixes |-> IF \E prefix \in locals.prefixes : StartsWith(pattern, prefix)
                               THEN locals.prefixes
                               ELSE locals.prefixes \cup {pattern}]
    /\ UNCHANGED <<op, args, result, cpc>>
    /\ UNCHANGED <<builderVars, filterVars>>

\* lines 614-620: one pass of the while loop; patterns.pop() takes any
\* pattern of the set
GetPrefixesPop(pattern) ==
    /\ op = "_getPrefixes"
    /\ cpc = "loop"
    /\ pattern \in locals.patterns
    /\ LET patterns == locals.patterns \ {pattern}
       IN  locals' = [patterns |-> patterns,
                      prefixes |-> IF \E prefix \in patterns \cup locals.prefixes :
                                         StartsWith(pattern, prefix)
                                   THEN locals.prefixes
                                   ELSE locals.prefixes \cup {pattern}]
    /\ UNCHANGED <<op, args, result, cpc>>
    /\ UNCHANGED <<builderVars, filterVars>>

\* line 621
GetPrefixesReturn ==
    /\ op = "_getPrefixes"
    /\ cpc = "loop"
    /\ locals.patterns = {}
    /\ result' = Ok(locals.prefixes)
    /\ cpc' = "returned"
    /\ UNCHANGED <<op, args, locals>>
    /\ UNCHANGED <<builderVars, filterVars>>

NextPrefixes ==
    \/ GetPrefixesPatterns
    \/ \E pattern \in {directoryOf(q) : q \in PrefixPatterns} : GetPrefixesPop(pattern)
    \/ GetPrefixesReturn

SpecPrefixes == InitPrefixes /\ [][NextPrefixes]_vars

-----------------------------------------------------------------------------
(* artifact_list_builder.py: ArtifactListBuilder._listDependencyGraph in    *)
(* analyze mode, on what the two queries of IndyApi answered.               *)

MaxPaths == 2

\* ArtifactRelationship.__init__
ArtifactRelationship(declaring, target, rel_type, extra) ==
    [declaring |-> declaring, target |-> target, rel_type |-> rel_type, extra |-> extra]

\* maven_repo_util.gatvc_to_gatcv: the classifier before the version
gatvc_to_gatcv(gatvc) ==
    IF Len(gatvc) = 5 THEN <<gatvc[1], gatvc[2], gatvc[3], gatvc[5], gatvc[4]>> ELSE gatvc

\* an edge of a path as the service gives it
GraphEdge(type, inherited, mixin) ==
    [declaring |-> <<"g", "r", "1.0">>, target |-> <<"g", "a", "jar", "1.0">>, type |-> type,
     scope |-> "compile", inherited |-> inherited, mixin |-> mixin]

EdgeChoices ==
    {GraphEdge("DEPENDENCY", FALSE, FALSE), GraphEdge("DEPENDENCY", TRUE, FALSE),
     GraphEdge("DEPENDENCY", FALSE, TRUE), GraphEdge("BOM", FALSE, FALSE),
     GraphEdge("BOM", FALSE, TRUE)}

\* the paths of the answers: one or two edges
PathChoices ==
    {<<e>> : e \in EdgeChoices} \cup {<<e, f>> : e \in EdgeChoices, f \in EdgeChoices}

\* the coordinates of the urlmap answer
ResolvedGavs == {<<"g", "r", "1.0">>, <<"g", "a", "1.0">>, <<"g", "b", "1.0">>}

InitGraph ==
    /\ BuilderIdle
    /\ FilterIdle
    /\ op = "_listDependencyGraph"
    /\ args \in [gavs : {<<(<<"g", "r", "1.0">>)>>,
                         <<(<<"g", "r", "1.0">>), (<<"g", "s", "1.0">>)>>},
                 keys : {{}, {<<"g", "a", "1.0">>}, {<<"g", "a", "jar", "1.0">>}},
                 gav_paths : {<<>>} \cup SeqsUpTo(PathChoices, MaxPaths)]
    /\ result = <<>>
    /\ cpc = "called"
    /\ locals = [artifacts |-> <<>>]

\* lines 429-443: an ArtifactSpec for every coordinate of the urlmap
GraphArtifacts ==
    /\ op = "_listDependencyGraph"
    /\ cpc = "called"
    /\ locals' = [artifacts |-> [gav \in ResolvedGavs |-> ArtifactSpec("X", artTypesOf(jarPom))]]
    /\ cpc' = "paths"
    /\ UNCHANGED <<op, args, result>>
    /\ UNCHANGED <<builderVars, filterVars>>

\* lines 463-466: the GAV of a key of path_dict
keyGav(key) == IF Len(key) > 3 THEN <<key[1], key[2], key[Len(key)]>> ELSE key

\* lines 478-497: the relationship of an edge
relationshipOf(gav_rel) ==
    LET declaring == createFromGAV(gav_rel.declaring)
        target == createFromGAV(gatvc_to_gatcv(gav_rel.target))
    IN  IF gav_rel.type = "DEPENDENCY"
        THEN ArtifactRelationship(declaring, target, gav_rel.type, gav_rel.scope)
        ELSE ArtifactRelationship(declaring, target, gav_rel.type, None)

\* lines 475-477, 490-493: whether the edge makes the path indirect
breaksDirect(gav_rel) == gav_rel.inherited \/ (gav_rel.type = "BOM" /\ gav_rel.mixin)

\* lines 470-500: the paths of gav_paths that are attached, in their order
RECURSIVE directPaths(_)
directPaths(gav_paths) ==
    IF gav_paths = <<>> THEN <<>>
    ELSE LET gav_path == Head(gav_paths)
         IN  (IF \E i \in 1..Len(gav_path) : breaksDirect(gav_path[i]) THEN <<>>
              ELSE <<[i \in 1..Len(gav_path) |-> relationshipOf(gav_path[i])]>>)
             \o directPaths(Tail(gav_paths))

\* lines 458-500: the paths of the answer are attached to their coordinates
GraphPaths ==
    /\ op = "_listDependencyGraph"
    /\ cpc = "paths"
    /\ locals' = [artifacts |->
                    [ma \in DOMAIN locals.artifacts |->
                        IF \E key \in args.keys : keyGav(key) = ma
                        THEN [locals.artifacts[ma] EXCEPT !.paths = @ \o directPaths(args.gav_paths)]
                        ELSE locals.artifacts[ma]]]
    /\ cpc' = "unknown"
    /\ UNCHANGED <<op, args, result>>
    /\ UNCHANGED <<builderVars, filterVars>>

\* lines 504-508: the artificial paths from the roots to the coordinate ma
RECURSIVE unknownPaths(_, _)
unknownPaths(gavs, ma) ==
    IF gavs = <<>> THEN <<>>
    ELSE (IF Head(gavs) # ma
          THEN <<(<<ArtifactRelationship(createFromGAV(Head(gavs)), None, None, None),
                    ArtifactRelationship(None, MavenArtifact(ma[1], ma[2], None, ma[3], ""),
                                         None, None)>>)>>
          ELSE <<>>)
         \o unknownPaths(Tail(gavs), ma)

\* unknown paths for the roots as well
unknownPathsForEvery(gavs, spec, ma) ==
    IF spec.paths = <<>> THEN [spec EXCEPT !.paths = unknownPaths(gavs, ma)] ELSE spec

\* lines 501-508: unknown paths for a coordinate without path that is no root
withUnknownPaths(gavs, spec, ma) ==
    IF spec.paths = <<>> /\ \A i \in 1..Len(gavs) : gavs[i] # ma
    THEN [spec EXCEPT !.paths = unknownPaths(gavs, ma)]
    ELSE spec

\* lines 501-516
GraphUnknownPaths ==
    /\ op = "_listDependencyGraph"
    /\ cpc = "unknown"
    /\ LET artifacts == [ma \in DOMAIN locals.artifacts |->
                            withUnknownPaths(args.gavs, locals.artifacts[ma], ma)]
       IN  /\ locals' = [artifacts |-> artifacts]
           /\ result' = Ok(artifacts)
    /\ cpc' = "returned"
    /\ UNCHANGED <<op, args>>
    /\ UNCHANGED <<builderVars, filterVars>>

NextGraph ==
    \/ GraphArtifacts
    \/ GraphPaths
    \/ GraphUnknownPaths

SpecGraph == InitGraph /\ [][NextGraph]_vars

-----------------------------------------------------------------------------
(* indy_apis.py: the cache file names of two queries, by their content.    *)
(* A string is a sequence of pieces; "_" and "_|_" are pieces of their own, *)
(* so that a parameter with an underscore in it is <<"x", "_", "y">>.       *)

\* len() of a piece; LongGav and LongKey stand for strings of 250 characters
pieceLength(piece) ==
    CASE piece \in {"x", "y", "k", "m", "_", "-", "g"} -> 1
      [] piece = "_|_" -> 3
      [] piece \in {"g:a", "g$a"} -> 3
      [] piece = "None" -> 4
      [] piece \in {"g:a:1", "g:b:1", "g$a$1", "g$b$1"} -> 5
      [] piece = "requires" -> 8
      [] piece \in {"LongGav:", "LongGav$", "LongKey"} -> 250

RECURSIVE stringLength(_)
stringLength(string) ==
    IF string = <<>> THEN 0 ELSE pieceLength(Head(string)) + stringLength(Tail(string))

\* sep.join(list)
RECURSIVE join(_, _)
join(sep, list) ==
    IF list = <<>> THEN <<>>
    ELSE IF Len(list) = 1 THEN list[1]
    ELSE list[1] \o <<sep>> \o join(sep, Tail(list))

\* root.replace(":", "$")
dollar(piece) ==
    CASE piece = "g:a:1" -> "g$a$1" [] piece = "g:b:1" -> "g$b$1"
      [] piece = "LongGav:" -> "LongGav$" [] OTHER -> piece

\* re.sub(":.*", "", target)
groupOf(piece) == CASE piece = "g:a" -> "g" [] OTHER -> piece

\* the nine parameters of a query
Queries ==
    [sourceKey : {<<"k">>},
     roots : {<<(<<"g:a:1">>)>>, <<(<<"g:a:1">>), (<<"g:b:1">>)>>, <<(<<"LongGav:">>)>>},
     targets : {<<>>, <<(<<"g:a">>)>>},
     excludedSources : {<<>>, <<(<<"x">>)>>, <<(<<"x">>), (<<"y">>)>>, <<(<<"x", "_", "y">>)>>,
                        <<(<<"LongKey">>)>>},
     excludedSubgraphs : {<<>>, <<(<<"x">>)>>},
     preset : {<<"requires">>},
     mutator : {None, "m"},
     patcherIds : {<<>>, <<(<<"x">>)>>},
     injectedBOMs : {<<>>, <<(<<"x">>)>>}]

\* lines 550-554 and 632-636: the nine parameters in one string
joinedKey(method, q) ==
    (IF method = "urlmap"
     THEN join("_", q.roots) \o <<"_|_">> \o q.sourceKey \o <<"_|_", "None">>
     ELSE join("_", q.roots) \o <<"_|_">> \o join("_", q.targets) \o <<"_|_">> \o q.sourceKey)
    \o <<"_|_">> \o join("_", q.excludedSources)
    \o <<"_|_">> \o join("_", q.excludedSubgraphs)
    \o <<"_|_">> \o q.preset
    \o <<"_|_", q.mutator>>
    \o <<"_|_">> \o join("_", q.patcherIds)
    \o <<"_|_">> \o join(IF method = "urlmap" THEN "_" ELSE "-", q.injectedBOMs)

\* lines 555-559 and 637-641: the key of the file name; sha256 is the string
\* that the digest was made of (no two strings have one digest)
fingerprint(method, q) ==
    LET cache_filename == joinedKey(method, q)
        limit == IF method = "urlmap" THEN 243 ELSE 244
        lists == IF method = "urlmap" THEN join("-", q.roots)
                 ELSE join("_", q.roots) \o <<"_|_">> \o join("_", q.targets)
    IN  IF stringLength(cache_filename) <= limit
        THEN [name |-> cache_filename, sha256 |-> <<>>]
        ELSE IF stringLength(lists) + 3 + hexdigestLength <= limit
             THEN [name |-> lists \o <<"_|_">>, sha256 |-> cache_filename]
             ELSE [name |-> <<>>, sha256 |-> cache_filename]

\* lines 645-665: the directory made of the leading elements of a list
RECURSIVE directoryName(_, _)
directoryName(names, dir) ==
    IF names = <<>> THEN dir
    ELSE LET temp == IF dir # <<>> THEN dir \o <<"_|_">> \o names[1] ELSE names[1]
         IN  IF stringLength(temp) < 255 THEN directoryName(Tail(names), temp) ELSE dir

\* lines 560 and 667: the file of a query below CACHE_PATH
cacheFileOf(method, q) ==
    IF method = "urlmap"
    THEN [file |-> fingerprint(method, q)]
    ELSE [root_dir |-> directoryName([i \in 1..Len(q.roots) |->
                                        [j \in 1..Len(q.roots[i]) |-> dollar(q.roots[i][j])]], <<>>),
          target_dir |-> directoryName([i \in 1..Len(q.targets) |->
                                        [j \in 1..Len(q.targets[i]) |-> groupOf(q.targets[i][j])]], <<>>),
          file |-> fingerprint(method, q)]

InitFingerprint ==
    /\ BuilderIdle
    /\ FilterIdle
    /\ op \in {"urlmap", "paths"}
    /\ args \in [first : Queries, second : Queries]
    /\ op = "urlmap" => args.first.targets = <<>> /\ args.second.targets = <<>>
    /\ result = <<>>
    /\ cpc = "called"
    /\ locals = <<>>

\* the cache files of two queries of one kind
Fingerprint ==
    /\ op \in {"urlmap", "paths"}
    /\ cpc = "called"
    /\ locals = <<>>
    /\ result' = Ok([first |-> cacheFileOf(op, args.first),
                     second |-> cacheFileOf(op, args.second)])
    /\ cpc' = "returned"
    /\ UNCHANGED <<op, args, locals>>
    /\ UNCHANGED <<builderVars, filterVars>>

NextFingerprint == Fingerprint

SpecFingerprint == InitFingerprint /\ [][NextFingerprint]_vars

-----------------------------------------------------------------------------
(* Properties of buildList *)

RaisedTasks == {k \in 1..Len(tasks) : tasks[k].state = "raised"}

RunningTasks == {k \in 1..Len(tasks) : tasks[k].state = "running"}

\* C1: buildList returns a structure only when every declared priority 1..N
\* is a key of the results, that is, when no collector raised.
BuildListReturnsOnlyCompleteResults ==
    pc = "returned" => (DOMAIN results = 1..N /\ RaisedTasks = {})

\* C2: when a collector has failed while others are still running, buildList
\* does not wait in join() for them: the pools it would join are terminated.
BuildListNeverJoinsAfterFailure ==
    (pc = "join" /\ RaisedTasks # {} /\ RunningTasks # {})
        => \A t \in DOMAIN pool_dict : pool_dict[t] = "TERMINATE"

\* C3: the count of the aggregate error is the number of declared sources
\* whose collector raised before buildList failed.
BuildListErrorCountsFailedSources ==
    [][(pc = "check" /\ pc' = "raised" /\ ret'.kind = "RuntimeError")
          => ret'.count = Cardinality(RaisedTasks)]_vars

\* The version entries source p produced: the pairs of its partial result
ProducedBy(p) ==
    LET r == readArtifacts(artifactSources[p])
    IN  IF r.ok THEN {<<getGA(r.value[i][1]), r.value[i][1].version, r.value[i][2]>> :
                        i \in 1..Len(r.value)}
        ELSE {}

\* The version entries of the structure al under priority p
EntriesUnder(al, p) ==
    UNION {{<<ga, v, al[ga][p][v]>> : v \in DOMAIN al[ga][p]} :
              ga \in {g \in DOMAIN al : p \in DOMAIN al[g]}}

\* C4: whatever the order in which the collectors complete, the entries the
\* returned structure has under priority p are exactly those the p-th
\* declared source produced.
ReturnedEntriesAreThoseOfTheSource ==
    pc = "returned" =>
        /\ \A p \in 1..N : EntriesUnder(ret.artifactList, p) = ProducedBy(p)
        /\ \A ga \in DOMAIN ret.artifactList : DOMAIN ret.artifactList[ga] \subseteq 1..N

ReturnedFromTwoSources ==
    /\ pc = "returned"
    /\ \E p, q \in 1..N : p < q /\ ProducedBy(p) # {} /\ ProducedBy(q) # {}
                          /\ ProducedBy(p) # ProducedBy(q)

InSection == {k \in 1..Len(tasks) : tasks[k].state = "updating"}

\* C5: at most one callback is inside the update section of _add_result, the
\* lock is held exactly while a callback is inside, and the result of every
\* callback that left the section is in the results.
AddResultMutualExclusion ==
    /\ Cardinality(InSection) <= 1
    /\ (results_lock = 0 <=> InSection = {})
    /\ (results_lock # 0 => InSection = {results_lock})
    /\ \A k \in 1..Len(tasks) : tasks[k].state = "done" =>
          /\ tasks[k].priority \in DOMAIN results
          /\ results[tasks[k].priority] = readArtifacts(artifactSources[tasks[k].source]).value

\* a callback holds the lock while the result of a collector of another pool
\* waits for it
CallbackWaitsForLock ==
    \E k, j \in 1..Len(tasks) :
        /\ tasks[k].state = "updating"
        /\ tasks[j].state = "returned"
        /\ PoolOf(j) # PoolOf(k)

\* C6: every declared source is submitted exactly once, the i-th one with
\* priority i, and no two submitted tasks share a priority.
EverySourceSubmittedOnceWithItsPriority ==
    /\ \A k \in 1..Len(tasks) : tasks[k].source = k /\ tasks[k].priority = k
    /\ \A k, j \in 1..Len(tasks) : k # j => tasks[k].priority # tasks[j].priority
    /\ pc # "submit" => Len(tasks) = N

AllSourcesSubmitted == pc = "close" /\ N >= 2 /\ Len(tasks) = N

-----------------------------------------------------------------------------
(* Properties of Filter.filter *)

StageOrder ==
    <<"excludedGAVs", "excludedTypes", "duplicates", "multipleVersions",
      "excludedRepositories">>

\* whether filter calls the stage under the configuration
StageSet(stage) ==
    CASE stage = "excludedGAVs" -> config.excludedGAVs # <<>>
      [] stage = "excludedTypes" -> config.excludedTypes # {}
      [] stage = "duplicates" -> TRUE
      [] stage = "multipleVersions" -> config.singleVersion
      [] stage = "excludedRepositories" -> config.excludedRepositories # <<>>

\* the stages filter has gone past
StagesPassed ==
    {i \in 1..Len(StageOrder) :
        \/ fpc \in {"probing", "done"}
        \/ \E j \in 1..Len(StageOrder) : fpc = StageOrder[j] /\ i < j}

\* C7: the stages called are, in the order excluded-GAV, excluded-type,
\* duplicate, single-version, excluded-repository, exactly those among the
\* stages gone past that are set; the duplicate stage is called always.
StagesRunInOrder ==
    fpc # "idle" =>
        stageLog = SelectSeq(SubSeq(StageOrder, 1, Cardinality(StagesPassed)), StageSet)

AllFiveStagesRan == fpc = "done" /\ Len(stageLog) = Len(StageOrder)

\* The structure filter was called with
FilterInput == ret.artifactList

\* C8: after every stage no group:artifact maps to an empty priority map and
\* no priority maps to an empty version map.
NoEmptyContainers ==
    \A ga \in DOMAIN artifactList :
        /\ DOMAIN artifactList[ga] # {}
        /\ \A p \in DOMAIN artifactList[ga] : DOMAIN artifactList[ga][p] # {}

StagesEmptiedAGroupArtifact ==
    /\ fpc = "done"
    /\ Len(stageLog) = Len(StageOrder)
    /\ DOMAIN artifactList # {}
    /\ \E ga \in DOMAIN FilterInput :
          /\ ga \notin DOMAIN artifactList
          /\ Cardinality(DOMAIN FilterInput[ga]) > 1

\* C9: every ArtifactSpec left when filter returns has containsMain() true.
FilteredSpecsContainMain ==
    fpc = "done" =>
        \A ga \in DOMAIN artifactList : \A p \in DOMAIN artifactList[ga] :
            \A v \in DOMAIN artifactList[ga][p] : containsMain(artifactList[ga][p][v])

Count(seq, x) == Cardinality({i \in 1..Len(seq) : seq[i] = x})

RECURSIVE SumOver(_, _)
SumOver(S, f) ==
    IF S = {} THEN 0
    ELSE LET x == CHOOSE y \in S : TRUE IN f[x] + SumOver(S \ {x}, f)

PrioritiesOf(al, ga, v) ==
    IF ga \in DOMAIN al THEN {p \in DOMAIN al[ga] : v \in DOMAIN al[ga][p]} ELSE {}

\* C10: a version that is at two or more priorities before _filterDuplicates
\* is afterwards at the smallest of them only, and the paths of the entry
\* left are its own followed by every path of every removed entry.
DuplicatesLeaveLowestWithAllPaths ==
    [][fpc = "duplicates" =>
        \A ga \in DOMAIN artifactList : \A w \in DOMAIN artifactList[ga] :
            \A v \in DOMAIN artifactList[ga][w] :
                LET prs == PrioritiesOf(artifactList, ga, v)
                    low == Min(prs)
                    own == artifactList[ga][low][v].paths
                IN  Cardinality(prs) >= 2 =>
                      /\ PrioritiesOf(artifactList', ga, v) = {low}
                      /\ LET left == artifactList'[ga][low][v].paths
                         IN  /\ SubSeq(left, 1, Len(own)) = own
                             /\ \A x \in UNION {{artifactList[ga][p][v].paths[i] :
                                         i \in 1..Len(artifactList[ga][p][v].paths)} :
                                             p \in prs}
                                     \cup {left[i] : i \in 1..Len(left)} :
                                   Count(left, x) =
                                     SumOver(prs, [p \in prs |->
                                                Count(artifactList[ga][p][v].paths, x)])]_vars

DuplicateOfThreePrioritiesMerged ==
    /\ fpc = "multipleVersions"
    /\ \E ga \in DOMAIN artifactList : \E p \in DOMAIN artifactList[ga] :
          \E v \in DOMAIN artifactList[ga][p] :
              /\ Len(artifactList[ga][p][v].paths) >= 3
              /\ Cardinality(PrioritiesOf(FilterInput, ga, v)) >= 3

\* C11: for every group:artifact that is not exempt, _filterMultipleVersions
\* leaves exactly one priority, the smallest that was present, and under it
\* exactly one version, a maximum of the versions of that priority under the
\* version comparator, with its entry as it was.
SingleVersionLeavesMaximumOfLowestPriority ==
    [][(fpc = "multipleVersions" /\ config.singleVersion) =>
        \A ga \in DOMAIN artifactList :
            ~somethingMatch(config.multiVersionGAs, ga) =>
                LET low == Min(DOMAIN artifactList[ga])
                    bucket == artifactList[ga][low]
                IN  /\ ga \in DOMAIN artifactList'
                    /\ DOMAIN artifactList'[ga] = {low}
                    /\ \E v \in DOMAIN bucket :
                          /\ \A w \in DOMAIN bucket : versionRank(w) <= versionRank(v)
                          /\ DOMAIN artifactList'[ga][low] = {v}
                          /\ artifactList'[ga][low][v] = bucket[v]]_vars

\* the filter has made one version of a group:artifact that had three
\* versions at its lowest priority and a fourth entry at another priority
ThreeVersionsAndAPriorityCollapsed ==
    /\ fpc = "excludedRepositories"
    /\ config.singleVersion
    /\ \E ga \in DOMAIN artifactList :
          LET before == _filterDuplicates(FilterInput)[ga]
          IN  /\ ~somethingMatch(config.multiVersionGAs, ga)
              /\ Cardinality(DOMAIN before) >= 2
              /\ Cardinality(DOMAIN before[Min(DOMAIN before)]) >= 3
              /\ DOMAIN artifactList[ga] = {Min(DOMAIN before)}
              /\ DOMAIN artifactList[ga][Min(DOMAIN before)] = {"1.2"}

\* whether the structure al has version v of ga at priority p
HasEntry(al, ga, p, v) ==
    ga \in DOMAIN al /\ p \in DOMAIN al[ga] /\ v \in DOMAIN al[ga][p]

\* whether a GAV-shaped pattern of the configuration matches ga:v
GAVExcluded(ga, v) == somethingMatch(SelectSeqGAV(config.excludedGAVs), ga \o <<v>>)

\* whether a GATCV-shaped pattern of the configuration matches the
\* classifier c of the type t of ga:v
GATCVExcluded(ga, t, c, v) ==
    somethingMatch(SelectSeqGATCV(config.excludedGAVs),
                   IF c # "" THEN ga \o <<t, c, v>> ELSE ga \o <<t, v>>)

\* the types of the entry that a classifier is left in
TypesLeft(spec, ga, v) ==
    {t \in DOMAIN spec.artTypes :
        \E c \in spec.artTypes[t].classifiers : ~GATCVExcluded(ga, t, c, v)}

GATCVPatternRemovesClassifiers ==
    [][(fpc = "excludedGAVs" /\ config.excludedGAVs # <<>>) =>
        \A ga \in DOMAIN artifactList : \A p \in DOMAIN artifactList[ga] :
            \A v \in DOMAIN artifactList[ga][p] :
                LET spec == artifactList[ga][p][v]
                    left == TypesLeft(spec, ga, v)
                IN  ~GAVExcluded(ga, v) =>
                      /\ HasEntry(artifactList', ga, p, v)
                            <=> \E t \in left : spec.artTypes[t].mainType
                      /\ HasEntry(artifactList', ga, p, v) =>
                            LET after == artifactList'[ga][p][v]
                            IN  /\ DOMAIN after.artTypes = left
                                /\ \A t \in left :
                                      /\ after.artTypes[t].classifiers
                                            = {c \in spec.artTypes[t].classifiers :
                                                  ~GATCVExcluded(ga, t, c, v)}
                                      /\ after.artTypes[t].mainType = spec.artTypes[t].mainType
                                      /\ after.artTypes[t].artType = spec.artTypes[t].artType
                                /\ after.url = spec.url
                                /\ after.paths = spec.paths]_vars

\* the pattern g:a:jar:1.0 has removed the entry of 1.0 whose jar had the
\* empty classifier only, and has left the jar of another entry of 1.0 with
\* its sources classifier
GATCVRemovedAClassifierATypeAndAnEntry ==
    /\ stageLog = <<"excludedGAVs">>
    /\ config.excludedGAVs = <<(<<"g", "a", "jar", "1.0">>)>>
    /\ \E p, q \in PrioritiesOf(FilterInput, <<"g", "a">>, "1.0") :
          /\ FilterInput[<<"g", "a">>][p]["1.0"].artTypes["jar"].classifiers = {""}
          /\ ~HasEntry(artifactList, <<"g", "a">>, p, "1.0")
          /\ FilterInput[<<"g", "a">>][q]["1.0"].artTypes["jar"].classifiers = {"", "sources"}
          /\ HasEntry(artifactList, <<"g", "a">>, q, "1.0")
          /\ artifactList[<<"g", "a">>][q]["1.0"].artTypes["jar"].classifiers = {"sources"}

\* whether the allow-list of the configuration matches the classifier c of
\* the type t of ga:v
Whitelisted(ga, t, c, v) ==
    somethingMatch(config.gatcvWhitelist,
                   IF c # "" THEN ga \o <<t, c, v>> ELSE ga \o <<t, v>>)

\* the classifiers _filterExcludedTypes is to leave in the type t
ClassifiersKept(spec, ga, t, v) ==
    IF t \in config.excludedTypes
    THEN {c \in spec.artTypes[t].classifiers : Whitelisted(ga, t, c, v)}
    ELSE spec.artTypes[t].classifiers

\* C14: _filterExcludedTypes keeps a classifier of an excluded extension iff
\* the allow-list matches its GATCV, removes an excluded extension left
\* without classifier, removes the entry iff it is left without a type
\* flagged main, and leaves the types of the other extensions as they were.
ExcludedTypesKeepWhitelistedClassifiers ==
    [][(fpc = "excludedTypes" /\ config.excludedTypes # {}) =>
        \A ga \in DOMAIN artifactList : \A p \in DOMAIN artifactList[ga] :
            \A v \in DOMAIN artifactList[ga][p] :
                LET spec == artifactList[ga][p][v]
                    left == {t \in DOMAIN spec.artTypes :
                                t \notin config.excludedTypes
                                \/ ClassifiersKept(spec, ga, t, v) # {}}
                IN  /\ HasEntry(artifactList', ga, p, v)
                          <=> \E t \in left : spec.artTypes[t].mainType
                    /\ HasEntry(artifactList', ga, p, v) =>
                          LET after == artifactList'[ga][p][v]
                          IN  /\ DOMAIN after.artTypes = left
                              /\ \A t \in left :
                                    /\ after.artTypes[t].classifiers
                                          = ClassifiersKept(spec, ga, t, v)
                                    /\ after.artTypes[t].mainType = spec.artTypes[t].mainType
                                    /\ after.artTypes[t].artType = spec.artTypes[t].artType
                              /\ after.url = spec.url
                              /\ after.paths = spec.paths]_vars

\* with jar excluded and g:a:jar:sources:* allowed, an entry has kept the
\* sources classifier of its jar and its war, and an entry of jar and pom is
\* removed
ExcludedTypeLostAClassifierAndAnEntry ==
    /\ stageLog = <<"excludedTypes">>
    /\ config.excludedTypes = {"jar"}
    /\ \E p, q \in PrioritiesOf(FilterInput, <<"g", "a">>, "1.0") :
          /\ "war" \in DOMAIN FilterInput[<<"g", "a">>][p]["1.0"].artTypes
          /\ HasEntry(artifactList, <<"g", "a">>, p, "1.0")
          /\ DOMAIN artifactList[<<"g", "a">>][p]["1.0"].artTypes = {"jar", "war", "pom"}
          /\ artifactList[<<"g", "a">>][p]["1.0"].artTypes["jar"].classifiers = {"sources"}
          /\ artifactList[<<"g", "a">>][p]["1.0"].artTypes["war"]
                = FilterInput[<<"g", "a">>][p]["1.0"].artTypes["war"]
          /\ DOMAIN FilterInput[<<"g", "a">>][q]["1.0"].artTypes = {"jar", "pom"}
          /\ ~HasEntry(artifactList, <<"g", "a">>, q, "1.0")

\* whether an excluded repository has the POM of ga:v
InExcludedRepository(ga, v) ==
    \E i \in 1..Len(config.excludedRepositories) :
        gavExists(config.excludedRepositories[i], MavenArtifact(ga[1], ga[2], "pom", v, ""))

\* C15: while probes of _filterExcludedRepositories are outstanding nothing
\* is removed; when the stage returns, in whatever order the probes ran, an
\* entry is left iff no excluded repository has its POM, the entries left are
\* as they were, and no priority or group:artifact is left empty.
ExcludedRepositoriesRemoveFoundEntries ==
    [][fpc = "probing" =>
        IF fpc' = "done"
        THEN /\ pending = {}
             /\ \A ga \in DOMAIN artifactList : \A p \in DOMAIN artifactList[ga] :
                   \A v \in DOMAIN artifactList[ga][p] :
                       /\ HasEntry(artifactList', ga, p, v) <=> ~InExcludedRepository(ga, v)
                       /\ HasEntry(artifactList', ga, p, v)
                             => artifactList'[ga][p][v] = artifactList[ga][p][v]
             /\ \A ga \in DOMAIN artifactList' :
                   /\ ga \in DOMAIN artifactList
                   /\ DOMAIN artifactList'[ga] # {}
                   /\ DOMAIN artifactList'[ga] \subseteq DOMAIN artifactList[ga]
                   /\ \A p \in DOMAIN artifactList'[ga] :
                         /\ DOMAIN artifactList'[ga][p] # {}
                         /\ DOMAIN artifactList'[ga][p] \subseteq DOMAIN artifactList[ga][p]
        ELSE artifactList' = artifactList]_vars

\* the stage has returned after two probes found their POM, the later
\* submitted one first; one group:artifact is gone and another is left
FoundEntriesRemovedAfterProbes ==
    /\ fpc = "done"
    /\ config.excludedRepositories # <<>>
    /\ pending = {}
    /\ Len(delArtifacts) >= 2
    /\ \E i, j \in 1..Len(delArtifacts) :
          /\ getGA(delArtifacts[i][1]) \notin DOMAIN artifactList
          /\ getGA(delArtifacts[j][1]) \in DOMAIN artifactList
    /\ \E i, j \in 1..Len(delArtifacts) :
          i < j /\ delArtifacts[i][2] > delArtifacts[j][2]

-----------------------------------------------------------------------------
(* Properties of ArtifactSpec.merge *)

MergeReturned == op = "merge" /\ cpc = "returned"

SharedTypes == DOMAIN args.self.artTypes \cap DOMAIN args.other.artTypes

\* whether merge gave the receiver the types of both specs and the paths of
\* the receiver followed by those of the argument
MergedBoth ==
    /\ result.ok
    /\ DOMAIN result.value.artTypes
          = DOMAIN args.self.artTypes \cup DOMAIN args.other.artTypes
    /\ \A t \in DOMAIN args.self.artTypes :
          result.value.artTypes[t] = args.self.artTypes[t]
    /\ \A t \in DOMAIN args.other.artTypes :
          result.value.artTypes[t] = args.other.artTypes[t]
    /\ result.value.paths = args.self.paths \o args.other.paths

\* C16 as stated: merge raises when the specs share an extension, and gives
\* the union of the types and the concatenation of the paths whenever they
\* share none.
MergeRaisesOnSharedTypesElseUnites ==
    MergeReturned =>
        /\ SharedTypes # {} => ~result.ok
        /\ SharedTypes = {} => MergedBoth

\* C16 amended: merge raises when the specs share an extension, and gives
\* the union of the types and the concatenation of the paths when they share
\* none and the URL of the argument is empty or that of the receiver.
MergeRaisesOnSharedTypesElseUnitesSameUrl ==
    MergeReturned =>
        /\ SharedTypes # {} => ~result.ok
        /\ (SharedTypes = {} /\ (args.other.url = "" \/ args.other.url = args.self.url))
              => MergedBoth

\* merge has united two specs of one URL, each with a type and a path
MergedTwoSpecsWithPaths ==
    /\ MergeReturned
    /\ result.ok
    /\ args.self.url = "X" /\ args.other.url = "X"
    /\ DOMAIN args.self.artTypes = {"jar", "pom"}
    /\ DOMAIN args.other.artTypes = {"war"}
    /\ result.value.paths = <<pathA, pathB>>

\* C17: with no extension shared, merge succeeds when the URLs are equal or
\* one of the two is empty, and raises when both are given and differ.
MergeUrlRule ==
    (MergeReturned /\ SharedTypes = {}) =>
        (result.ok <=> (\/ args.self.url = args.other.url
                        \/ args.self.url = ""
                        \/ args.other.url = ""))

-----------------------------------------------------------------------------
(* Properties of ArtifactListBuilder._listRepository *)

\* the places of the list whose repository holds the coordinate of key
\* among what the patterns ask for
FoundAt(key) ==
    {i \in 1..Len(args.repoUrls) :
        \E j \in 1..Len(RepoListing(args.repoUrls[i])) :
            LET e == RepoListing(args.repoUrls[i])[j]
            IN  MavenArtifact(e.groupId, e.artifactId, None, e.version, "") = key}

\* what _addArtifact makes of the coordinate of key in the repository at
\* place i of the list
EntryAt(key, i) ==
    LET url == args.repoUrls[i]
        j == CHOOSE k \in 1..Len(RepoListing(url)) :
                MavenArtifact(RepoListing(url)[k].groupId, RepoListing(url)[k].artifactId,
                              None, RepoListing(url)[k].version, "") = key
    IN  ArtifactSpec(url, artTypesOf(RepoListing(url)[j].extsAndClass))

Max(S) == CHOOSE x \in S : \A y \in S : y <= x

\* C18 as stated: the entry _listRepository keeps for a coordinate is that
\* of the latest URL of the list under which the coordinate is found.
RepositoryScanKeepsLaterUrl ==
    (op = "_listRepository" /\ cpc = "returned") =>
        \A i \in 1..Len(result.value) :
            result.value[i][2] = EntryAt(result.value[i][1], Max(FoundAt(result.value[i][1])))

\* C18 amended: the entry _listRepository keeps for a coordinate is that of
\* the earliest URL of the list under which the coordinate is found.
RepositoryScanKeepsEarlierUrl ==
    (op = "_listRepository" /\ cpc = "returned") =>
        \A i \in 1..Len(result.value) :
            result.value[i][2] = EntryAt(result.value[i][1], Min(FoundAt(result.value[i][1])))

\* a coordinate found with different types under two URLs of the list is
\* returned with those of the first
CoordinateOfTwoRepositoriesReturned ==
    /\ op = "_listRepository" /\ cpc = "returned"
    /\ \E i \in 1..Len(result.value) :
          LET at == FoundAt(result.value[i][1])
          IN  /\ Cardinality(at) >= 2
              /\ EntryAt(result.value[i][1], Min(at)) # EntryAt(result.value[i][1], Max(at))
              /\ result.value[i][2].url = args.repoUrls[Min(at)]

-----------------------------------------------------------------------------
(* Properties of _listDependencies *)

\* the coordinates whose POM was fetched and for which Maven exited non-zero
MavenFailed == args.mvnFails \ args.noPom

Discovered(gav) ==
    LET newArtifacts == _listArtifacts(DepRepoUrls, DepList(gav))
    IN  {getGAV(newArtifacts[i][1]) : i \in 1..Len(newArtifacts)}

ListDependenciesRunning == op = "_listDependencies" /\ cpc = "called"

\* C31: _listDependencies resolves each GAV string at most once; in
\* recursive mode it adds to the working set only discovered coordinates
\* that are not checked yet; it terminates (the reachable coordinates being
\* finite); in non-recursive mode only the top-level GAVs are resolved.
ListDependenciesResolvesOnceAndTerminates ==
    /\ [](op = "_listDependencies" => locals.workingSet \cap locals.checkedSet = {})
    /\ [][ListDependenciesRunning =>
            /\ \A gav \in locals'.checkedSet \ locals.checkedSet :
                  /\ gav \in locals.workingSet
                  /\ locals'.checkedSet = locals.checkedSet \cup {gav}
                  /\ locals'.workingSet \ locals.workingSet
                        \subseteq Discovered(gav) \ locals'.checkedSet
            /\ args.recursive = FALSE =>
                  /\ locals'.workingSet \subseteq locals.workingSet
                  /\ locals'.checkedSet \subseteq args.gavs]_vars
    /\ <>(cpc = "returned")

\* a recursive run has returned after it resolved g:a:1.0 and g:b:1.0, which
\* list each other, and g:c:1.0, which was discovered
CycleOfDependenciesResolved ==
    /\ op = "_listDependencies" /\ cpc = "returned"
    /\ args.recursive
    /\ args.gavs = {<<"g", "a", "1.0">>}
    /\ locals.checkedSet = {<<"g", "a", "1.0">>, <<"g", "b", "1.0">>, <<"g", "c", "1.0">>}
    /\ result.ok

-----------------------------------------------------------------------------
(* Properties of the queries of IndyApi *)

IndyReturned == op \in {"urlmap_response", "paths_response"} /\ cpc = "returned"

\* the responses the service gave to the call
Received == {args.responses[i] : i \in 1..locals.requests}

LastReceived == args.responses[locals.requests]

LegacyPosts ==
    {i \in 1..Len(locals.sent) :
        locals.sent[i].method = "POST"
        /\ locals.sent[i].url = [host |-> IndyHost, path |-> "api/depgraph/graph/paths"]}

\* the answers that self._postUrl handed back: those that are not redirects
Answers == {i \in 1..locals.requests : args.responses[i].status \notin {301, 302}}

\* C21: paths_response posts a second time, with the same body, to the legacy
\* path iff the answer to its first post was 404; what it returns is decided
\* by the last response received, and another failure of the first post
\* causes no second request.
PathsFallsBackOn404Only ==
    (op = "paths_response" /\ cpc = "returned" /\ Answers # {})
    => LET first == args.responses[Min(Answers)]
       IN  /\ (LegacyPosts # {}) <=> (first.status = 404)
           /\ Cardinality(LegacyPosts) <= 1
           /\ \A i \in 1..Len(locals.sent) : locals.sent[i].data = locals.sent[1].data
           /\ first.status # 404 => Len(locals.sent) = Min(Answers)
           /\ result.ok =>
                result.value = (IF LastReceived.status = 200 THEN LastReceived.content ELSE "{}")

\* paths_response got 404, posted to the legacy path and returned its content
PathsReturnedLegacyContent ==
    /\ op = "paths_response" /\ cpc = "returned"
    /\ args.responses[1].status = 404
    /\ Cardinality(LegacyPosts) = 1
    /\ locals.requests = 2
    /\ result = Ok("{projects}")

-----------------------------------------------------------------------------
(* Properties of urlmap, urlmap_nocache, paths and paths_nocache *)

ClientCalled == op \in WrapperMethods

\* C22 (as stated): whenever a cache file exists for the query, urlmap and
\* paths return the parsed content of that file and issue no HTTP request.
CacheFileMeansNoRequest ==
    (op \in {"urlmap", "paths"} /\ args.cache # NoFile)
    => /\ locals.sent = <<>>
       /\ cpc = "returned" => result = json_loads(get_cached(op, args.cache))

\* C22 (amended): whenever a cache file exists for the query and the cached
\* response read from it (for paths: its minimised content) is not empty,
\* urlmap and paths return the parsed content of that file (json.loads of the
\* cached response) and issue no HTTP request at all.
NonEmptyCacheFileMeansNoRequest ==
    (op \in {"urlmap", "paths"} /\ get_cached(op, args.cache) \notin {None, ""})
    => /\ locals.sent = <<>>
       /\ locals.cacheFile = args.cache
       /\ cpc = "returned" => result = json_loads(get_cached(op, args.cache))

\* paths returned the parsed projects of its cache file without a request
PathsAnsweredFromCache ==
    /\ op = "paths" /\ cpc = "returned"
    /\ args.cache = "{ projects }"
    /\ args.wsid = None
    /\ locals.sent = <<>>
    /\ result = Ok([projects |-> <<"project">>])

\* the requests of deleteWorkspace for the generated workspace id
WorkspaceDeletes ==
    {i \in 1..Len(locals.sent) :
        locals.sent[i].method = "DELETE"
        /\ locals.sent[i].url = [host |-> IndyHost, path |-> "api/depgraph/ws/temp"]}

AllDeletes == {i \in 1..Len(locals.sent) : locals.sent[i].method = "DELETE"}

AllPosts == {i \in 1..Len(locals.sent) : locals.sent[i].method = "POST"}

\* the *_response method has handed its response back to the caller
QueryAnswered == "responseContent" \in DOMAIN locals

\* C23: a call of urlmap, urlmap_nocache, paths or paths_nocache without a
\* workspace id that is not answered from the cache issues exactly one
\* deleteWorkspace, for the generated id, after the response of the query
\* was received; a workspace id passed by the caller is never deleted.
GeneratedWorkspaceDeletedOnce ==
    ClientCalled
    => /\ args.wsid # None => AllDeletes = {}
       /\ AllDeletes # {} => (QueryAnswered /\ ~cacheHit(op, args.cache))
       /\ \A i \in AllPosts, j \in AllDeletes : i < j
       /\ \A i \in AllPosts : locals.sent[i].data.workspaceId =
                                 (IF args.wsid = None THEN "temp" ELSE args.wsid)
       /\ (cpc = "returned" /\ args.wsid = None /\ QueryAnswered)
             => Cardinality(WorkspaceDeletes) = 1

\* paths without a workspace id posted twice, wrote the cache file and then
\* deleted the generated workspace
PathsDeletedGeneratedWorkspace ==
    /\ op = "paths" /\ cpc = "returned"
    /\ args.wsid = None
    /\ Cardinality(AllPosts) = 2
    /\ Cardinality(WorkspaceDeletes) = 1
    /\ locals.cacheFile = "{ projects }"
    /\ result.ok

-----------------------------------------------------------------------------
(* Properties of the cache file names *)

CacheFilenameReturned ==
    op \in {"get_urlmap_cache_filename", "get_paths_cache_filename"} /\ cpc = "returned"

\* length of the key joined from all the parameters of the call
JoinedLength ==
    (IF op = "get_urlmap_cache_filename" THEN joinLength(args.roots, 1)
     ELSE joinLength(args.roots, 1) + 3 + joinLength(args.targets, 1)) + 3 + args.rest

\* C24: the file name made by get_urlmap_cache_filename and
\* get_paths_cache_filename (prefix, key, ".json") has at most 255
\* characters whatever the lengths of the parameters; the key is the joined
\* parameters if that is short enough, else the lists with the SHA-256 digest,
\* else the bare digest; each directory name of a path-cache file is shorter
\* than 255 characters.
CacheFilenamesAreBounded ==
    CacheFilenameReturned
    => LET limit == IF op = "get_urlmap_cache_filename" THEN 243 ELSE 244
           key == result.value.key
       IN  /\ result.value.file <= 255
           /\ key.form = "joined" <=> JoinedLength <= limit
           /\ key.form = "joined" => key.len = JoinedLength
           /\ key.form = "short" => key.len = JoinedLength - args.rest + 64
           /\ key.form = "digest" => key.len = 64
           /\ op = "get_paths_cache_filename"
                 => (result.value.root_dir < 255 /\ result.value.target_dir < 255)

\* a path-cache file name of exactly 255 characters, made of the joined key
LongestPathsFilenameMade ==
    /\ op = "get_paths_cache_filename" /\ cpc = "returned"
    /\ result.value.file = 255
    /\ result.value.key.form = "joined"

\* a path-cache file name of the bare digest, in a directory whose name left
\* the second root out
BareDigestWithTruncatedDirectory ==
    /\ op = "get_paths_cache_filename" /\ cpc = "returned"
    /\ result.value.key.form = "digest"
    /\ Len(args.roots) = 2
    /\ result.value.root_dir = args.roots[1].len

-----------------------------------------------------------------------------
(* Properties of _getExtensionsAndClassifiers *)

ClassifiersReturned == op = "_getExtensionsAndClassifiers" /\ cpc = "returned"

\* C25: no file name ending in .md5, .sha1, .sha256 or .asc contributes an
\* entry to the returned extension map: none of md5, sha1, sha256 and asc is
\* ever an extension key.
ChecksumsAreNoExtensions ==
    ClassifiersReturned
    => DOMAIN result.value.extensions \cap {"md5", "sha1", "sha256", "asc"} = {}

\* the orderings of a list of file names
PermutationsOf(list) ==
    {p \in [1..Len(list) -> {list[i] : i \in 1..Len(list)}] :
        \E f \in [1..Len(list) -> 1..Len(list)] :
            /\ \A i, j \in 1..Len(list) : i # j => f[i] # f[j]
            /\ \A i \in 1..Len(list) : p[i] = list[f[i]]}

\* C26: _getExtensionsAndClassifiers returns the same extension map and the
\* same timestamp suffix for every ordering of the list of file names.
ClassifiersIgnoreFileOrder ==
    ClassifiersReturned
    => \A p \in PermutationsOf(args.filenames) :
          _getExtensionsAndClassifiers(args.artifactId, args.version, p) = result.value

\* three snapshot files, the one of the largest suffix read first
SnapshotFilesReadLargestFirst ==
    /\ ClassifiersReturned
    /\ args.version = <<"1.0", "-", "SNAPSHOT">>
    /\ args.filenames = <<(<<"a", "-", "1.0", "-", "SNAPSHOT", ".", "jar">>),
                          (<<"a", "-", "1.0", "-", "20120101.1200-1", ".", "jar">>),
                          (<<"a", "-", "1.0", "-", "20130101.1200-2", ".", "pom">>)>>
    /\ result.value.suffix = "SNAPSHOT"
    /\ DOMAIN result.value.extensions = {"jar", "pom"}

-----------------------------------------------------------------------------
(* Properties of _addArtifact *)

\* the extension:classifier combinations of the call that are outside the
\* auxiliary set notMainExtClassifiers
MainCombinations ==
    {<<ext, classifier>> \in {"jar", "pom"} \X {"", "sources", "foo"} :
        /\ ext \in DOMAIN args.extsAndClass
        /\ classifier \in args.extsAndClass[ext]
        /\ (ext \o ":" \o classifier) \notin notMainExtClassifiers}

\* C27: _addArtifact flags an extension other than pom as main iff one of its
\* extension:classifier combinations is outside the auxiliary set, and flags
\* pom as main iff no combination of another extension outside the auxiliary
\* set is present for the coordinate.
MainTypesFollowAuxiliarySet ==
    (op = "_addArtifact" /\ cpc = "returned")
    => LET artTypes == result.value[1][2].artTypes
       IN  /\ DOMAIN artTypes = DOMAIN args.extsAndClass
           /\ \A ext \in DOMAIN artTypes :
                 artTypes[ext].mainType <=>
                    IF ext = "pom"
                    THEN \A c \in MainCombinations : c[1] = "pom"
                    ELSE \E c \in MainCombinations : c[1] = ext

-----------------------------------------------------------------------------
(* Properties of MavenArtifact *)

\* C28: for any two coordinates, == holds exactly when the ordering
\* comparison returns 0, that is when they have the same
\* group:artifact:version and the same GATCV string.
EqualityAgreesWithOrdering ==
    (op = "__cmp__" /\ cpc = "returned")
    => /\ result.value.eq <=> (result.value.cmp = 0)
       /\ result.value.eq <=> (/\ colonJoined(getGAV(args.self)) = colonJoined(getGAV(args.other))
                               /\ colonJoined(getGATCV(args.self)) = colonJoined(getGATCV(args.other)))

RoundTripReturned == op = "createFromGAV" /\ cpc = "returned"

\* C29 (as stated): for every colon separated string of 3, 4 or 5 segments
\* whose last segment is not a scope keyword, createFromGAV and then getGATCV
\* give the string back; for 3 segments getGAV gives it back as well.
GATCVGivesTheStringBack ==
    (RoundTripReturned /\ args.gav[Len(args.gav)] \notin ScopeKeywords)
    => /\ result.value.GATCV = args.gav
       /\ Len(args.gav) = 3 => result.value.GAV = args.gav

\* C29 (amended): the same for the strings whose type segment and classifier
\* segment, where they have them, are not empty.
GATCVGivesTheStringBackUnlessEmptySegment ==
    (/\ RoundTripReturned
     /\ args.gav[Len(args.gav)] \notin ScopeKeywords
     /\ \A i \in 3..(Len(args.gav) - 1) : args.gav[i] # "")
    => /\ result.value.GATCV = args.gav
       /\ Len(args.gav) = 3 => result.value.GAV = args.gav

\* g:jar:jar:test:1.0, type, classifier and version parsed and rendered
FiveSegmentsGivenBack ==
    /\ RoundTripReturned
    /\ args.gav = <<"g", "jar", "jar", "test", "1.0">>
    /\ result.value.artifact.classifier = "test"
    /\ result.value.GATCV = args.gav

\* the passes of the loop of _filterMultipleVersions over the structure
PassesOfStage ==
    multipleVersionsPasses(artifactList, config.multiVersionGAs, sortedKeys(DOMAIN artifactList))

\* whether two structures have the same under the key ga, or both nothing
SameUnder(al, other, ga) ==
    /\ ga \in DOMAIN al <=> ga \in DOMAIN other
    /\ ga \in DOMAIN al => al[ga] = other[ga]

\* C30: _filterMultipleVersions leaves every group:artifact that matches a
\* pattern of multiVersionGAs with all its priorities, versions and
\* ArtifactSpecs as they were, and the pass of its loop for one
\* group:artifact changes nothing under any other group:artifact.
SingleVersionFrame ==
    [][(fpc = "multipleVersions" /\ config.singleVersion) =>
        LET keys == sortedKeys(DOMAIN artifactList)
        IN  /\ \A ga \in DOMAIN artifactList :
                  somethingMatch(config.multiVersionGAs, ga)
                  => SameUnder(artifactList, artifactList', ga)
            /\ Len(PassesOfStage) = Len(keys) + 1
            /\ artifactList' = PassesOfStage[Len(keys) + 1]
            /\ \A i \in 1..Len(keys) : \A ga \in DOMAIN artifactList :
                  ga # keys[i] => SameUnder(PassesOfStage[i], PassesOfStage[i + 1], ga)]_vars

\* the filter has left a matching group:artifact with its two priorities and
\* two versions of one of them, and made one version of another group:artifact
ExemptKeptWhileOtherCollapsed ==
    /\ fpc = "excludedRepositories"
    /\ config.singleVersion
    /\ LET before == _filterDuplicates(FilterInput)
       IN  /\ \E ga \in DOMAIN before :
                 /\ somethingMatch(config.multiVersionGAs, ga)
                 /\ Cardinality(DOMAIN before[ga]) >= 2
                 /\ \E p \in DOMAIN before[ga] : Cardinality(DOMAIN before[ga][p]) >= 2
                 /\ SameUnder(before, artifactList, ga)
           /\ \E ga \in DOMAIN before :
                 /\ ~somethingMatch(config.multiVersionGAs, ga)
                 /\ ga \in DOMAIN artifactList
                 /\ artifactList[ga] # before[ga]

-----------------------------------------------------------------------------
(* Properties of _getPrefixes *)

PrefixesReturned == op = "_getPrefixes" /\ cpc = "returned"

\* whether a pattern has a star with no "." and no ":" before it
StarBeforeDirectory(pattern) ==
    find(pattern, "*") # 0
    /\ \A i \in 1..(find(pattern, "*") - 1) : pattern[i] \notin {".", ":"}

\* whether a pattern has no directory part before its first wildcard: a
\* regular expression that starts unreadable, or a first star with no
\* separator before it
NoDirectoryPart(pattern) ==
    IF isRegExpPattern(pattern)
    THEN pattern[3] \notin WordChars \cup {":", "\\"} \/ StarBeforeDirectory(asteriskString(pattern))
    ELSE StarBeforeDirectory(pattern)

\* C32: the prefixes that _getPrefixes returns do not overlap (none is the
\* beginning of another) and cover (the directory of every pattern begins
\* with one of them); when a pattern has no directory part before its first
\* wildcard the result is the empty prefix alone.
PrefixesCoverWithoutOverlap ==
    PrefixesReturned =>
        /\ result.ok
        /\ \A q \in result.value : \A r \in result.value : r # q => ~StartsWith(q, r)
        /\ \A i \in 1..Len(args.gavPatterns) :
              \E q \in result.value : StartsWith(directoryOf(args.gavPatterns[i]), q)
        /\ (\E i \in 1..Len(args.gavPatterns) : NoDirectoryPart(args.gavPatterns[i]))
              => result.value = {<<>>}

\* a:b:1, a:* and ab:c gave a/ and ab/c/: a/b/1/ is inside a/, ab/c/ is not
NestedPrefixDropped ==
    /\ PrefixesReturned
    /\ Len(args.gavPatterns) = 3
    /\ args.gavPatterns[1] = <<"a", ":", "b", ":", "1">>
    /\ result.value = {<<"a", "/">>, <<"a", "b", "/", "c", "/">>}

-----------------------------------------------------------------------------
(* Properties of _listDependencyGraph *)

\* what the service returned for the coordinate ma
ReturnedPaths(ma) ==
    IF \E key \in args.keys : keyGav(key) = ma THEN args.gav_paths ELSE <<>>

\* whether a returned path has an edge marked inherited or marked mixin
Indirect(gav_path) ==
    \E i \in 1..Len(gav_path) : gav_path[i].inherited \/ gav_path[i].mixin

\* the relationship an edge stands for
EdgeAsRelationship(e) ==
    ArtifactRelationship(createFromGAV(e.declaring), createFromGAV(e.target), e.type,
                         IF e.type = "DEPENDENCY" THEN e.scope ELSE None)

\* C33: after the paths of the answer were attached, the paths of a
\* coordinate are exactly the returned paths for it that have no edge marked
\* inherited and no edge marked mixin, in the returned order and with their
\* edges in the returned order.
OnlyDirectPathsAttached ==
    (op = "_listDependencyGraph" /\ cpc = "unknown") =>
        \A ma \in DOMAIN locals.artifacts :
            LET direct == SelectSeq(ReturnedPaths(ma), LAMBDA gav_path : ~Indirect(gav_path))
            IN  locals.artifacts[ma].paths =
                    [k \in 1..Len(direct) |->
                        [i \in 1..Len(direct[k]) |-> EdgeAsRelationship(direct[k][i])]]

\* the top-level GAVs of the call
Roots == {args.gavs[i] : i \in 1..Len(args.gavs)}

\* the two edges of unknown type from a root to the coordinate ma
PlaceholderPath(root, ma) ==
    <<ArtifactRelationship(MavenArtifact(root[1], root[2], "", root[3], ""), None, None, None),
      ArtifactRelationship(None, MavenArtifact(ma[1], ma[2], None, ma[3], ""), None, None)>>

\* C34: in analyze mode every resolved coordinate that is no root and got no
\* explicit path gets one synthesized path per root, of two edges of unknown
\* type (root to unknown, unknown to the coordinate); a coordinate with an
\* explicit path and a root get none.
PlaceholdersOnlyWithoutExplicitPath ==
    [][(op = "_listDependencyGraph" /\ cpc = "unknown") =>
        \A ma \in DOMAIN locals.artifacts :
            LET before == locals.artifacts[ma].paths
                after == locals'.artifacts[ma].paths
            IN  /\ result'.value[ma].paths = after
                /\ IF before = <<>> /\ ma \notin Roots
                   THEN /\ Len(after) = Len(args.gavs)
                        /\ \A k \in 1..Len(after) : after[k] = PlaceholderPath(args.gavs[k], ma)
                   ELSE after = before]_vars

\* g:a:1.0, whose only returned path has an inherited edge, and g:b:1.0 have
\* a placeholder from each of the two roots; the root g:r:1.0 has no path
PlaceholdersFromTwoRoots ==
    /\ op = "_listDependencyGraph" /\ cpc = "returned"
    /\ Len(args.gavs) = 2
    /\ args.keys = {<<"g", "a", "jar", "1.0">>}
    /\ args.gav_paths = <<(<<GraphEdge("DEPENDENCY", TRUE, FALSE)>>)>>
    /\ Len(result.value[<<"g", "a", "1.0">>].paths) = 2
    /\ Len(result.value[<<"g", "b", "1.0">>].paths) = 2
    /\ result.value[<<"g", "r", "1.0">>].paths = <<>>

-----------------------------------------------------------------------------
(* Properties of the cache file names *)

\* C35: two membership queries, or two path queries, that differ in a
\* parameter are never given the same cache file.
DifferentQueriesDifferentFiles ==
    (op \in {"urlmap", "paths"} /\ cpc = "returned" /\ locals = <<>>
        /\ args.first # args.second)
    => result.value.first # result.value.second

-----------------------------------------------------------------------------
(* Properties of the cache of the client under degraded responses *)

\* C36: a response of a status other than 200 is never written to the cache
\* file, neither by urlmap nor by paths: the store step of such a call
\* leaves the file as it was, so that the same query issued again finds no
\* answer in the cache and sends its request.
DegradedResponseNotCached ==
    [][(op \in {"urlmap", "paths"} /\ cpc = "store"
            /\ locals.response.status # 200)
        => /\ locals'.cacheFile = locals.cacheFile
           /\ ~cacheHit(op, locals'.cacheFile)]_vars

-----------------------------------------------------------------------------
(* artifact_list_builder.py: the dependency-graph collectors that buildList  *)
(* hands to the pool of the source type, each running _listDependencyGraph. *)
(* locals.at is the position of each collector, locals.wsid the workspace   *)
(* its pending query names, locals.deleted the deleteWorkspace calls so far. *)

MaxCollectors == 2

\* MAX_THREADS_DICT["dependency-graph"]
DependencyGraphThreads == 6

WorkspaceIds == {None, "temp", "ws1"}

\* the workspace the service creates for a query that names none
generatedWorkspace(i) == <<"generated", i>>

InitCollectors ==
    /\ BuilderIdle
    /\ FilterIdle
    /\ op = "buildList"
    /\ args \in [sources : UNION {[1..n -> [wsid : WorkspaceIds]] : n \in 1..MaxCollectors},
                 analyze : BOOLEAN,
                 useCache : BOOLEAN]
    /\ result = <<>>
    /\ cpc = "called"
    /\ locals = [at |-> [i \in DOMAIN args.sources |-> "queued"],
                 wsid |-> [i \in DOMAIN args.sources |-> None],
                 deleted |-> <<>>]

Collectors == DOMAIN args.sources

RunningCollectors == {i \in Collectors : locals.at[i] \notin {"queued", "done"}}

\* lines 416-419
_wsid(analyze, wsid) == IF analyze /\ wsid = None THEN "temp" ELSE wsid

\* the workspace a query of collector i with workspace id wsid runs in
\* (IndyApi.urlmap_nocache lines 188-193: one is created when none is named)
queryWorkspace(i, wsid) == IF wsid = None THEN generatedWorkspace(i) ELSE wsid

\* IndyApi.urlmap_nocache lines 199-200: the generated workspace is deleted
\* once the response is there
deletedByClient(i, wsid) ==
    IF wsid = None THEN <<[by |-> i, wsid |-> generatedWorkspace(i)]>> ELSE <<>>

\* a worker of the pool takes the collector (lines 67-70) and the collector
\* sends its membership query (lines 416-427) unless the cache answers it
CollectorUrlmap(i) ==
    /\ op = "buildList"
    /\ locals.at[i] = "queued"
    /\ Cardinality(RunningCollectors) < DependencyGraphThreads
    /\ \E cached \in (IF args.useCache THEN BOOLEAN ELSE {FALSE}) :
          locals' = [locals EXCEPT
                        !.at[i] = IF cached THEN "urlmap answered" ELSE "urlmap pending",
                        !.wsid[i] = IF cached THEN None
                                    ELSE queryWorkspace(i, _wsid(args.analyze, args.sources[i].wsid))]
    /\ UNCHANGED <<op, args, result, cpc>>
    /\ UNCHANGED <<builderVars, filterVars>>

\* the response of the membership query arrives
CollectorUrlmapAnswered(i) ==
    /\ op = "buildList"
    /\ locals.at[i] = "urlmap pending"
    /\ locals' = [locals EXCEPT
                     !.at[i] = "urlmap answered",
                     !.wsid[i] = None,
                     !.deleted = @ \o deletedByClient(i, _wsid(args.analyze, args.sources[i].wsid))]
    /\ UNCHANGED <<op, args, result, cpc>>
    /\ UNCHANGED <<builderVars, filterVars>>

\* lines 429-466: the artifacts of the map are built and, in analyze mode,
\* the path query is sent unless the cache answers it
CollectorPaths(i) ==
    /\ op = "buildList"
    /\ locals.at[i] = "urlmap answered"
    /\ \E cached \in (IF args.useCache THEN BOOLEAN ELSE {FALSE}) :
          locals' = [locals EXCEPT
                        !.at[i] = IF args.analyze /\ ~cached THEN "paths pending" ELSE "paths answered",
                        !.wsid[i] = IF args.analyze /\ ~cached
                                    THEN queryWorkspace(i, _wsid(args.analyze, args.sources[i].wsid))
                                    ELSE None]
    /\ UNCHANGED <<op, args, result, cpc>>
    /\ UNCHANGED <<builderVars, filterVars>>

\* the response of the path query arrives
CollectorPathsAnswered(i) ==
    /\ op = "buildList"
    /\ locals.at[i] = "paths pending"
    /\ locals' = [locals EXCEPT
                     !.at[i] = "paths answered",
                     !.wsid[i] = None,
                     !.deleted = @ \o deletedByClient(i, _wsid(args.analyze, args.sources[i].wsid))]
    /\ UNCHANGED <<op, args, result, cpc>>
    /\ UNCHANGED <<builderVars, filterVars>>

\* the workspaces a collector deletes when it is through (lines 510-514)
collectorDeletes(analyze, wsid) ==
    IF wsid = None THEN <<_wsid(analyze, wsid)>> ELSE <<>>

\* lines 468-516: the paths are attached and the workspace is deleted
CollectorDeleteWorkspace(i) ==
    /\ op = "buildList"
    /\ locals.at[i] = "paths answered"
    /\ LET deletes == collectorDeletes(args.analyze, args.sources[i].wsid)
       IN  locals' = [locals EXCEPT
                         !.at[i] = "done",
                         !.deleted = @ \o [k \in DOMAIN deletes |-> [by |-> i, wsid |-> deletes[k]]]]
    /\ UNCHANGED <<op, args, result, cpc>>
    /\ UNCHANGED <<builderVars, filterVars>>

NextCollectors ==
    \/ \E i \in Collectors : CollectorUrlmap(i)
    \/ \E i \in Collectors : CollectorUrlmapAnswered(i)
    \/ \E i \in Collectors : CollectorPaths(i)
    \/ \E i \in Collectors : CollectorPathsAnswered(i)
    \/ \E i \in Collectors : CollectorDeleteWorkspace(i)

SpecCollectors == InitCollectors /\ [][NextCollectors]_vars

-----------------------------------------------------------------------------
(* Properties of the concurrent dependency-graph collectors *)

\* collector i has a membership or path query pending in workspace wsid
QueryPending(i, wsid) ==
    /\ locals.at[i] \in {"urlmap pending", "paths pending"}
    /\ locals.wsid[i] = wsid

\* C37: in analyze mode, a collector that was given no workspace id never
\* deletes a workspace while another collector that is running has a
\* membership or path query pending in the workspace of that id.
NoWorkspaceDeletedUnderPendingQuery ==
    [][\A i \in Collectors :
          (/\ op = "buildList"
           /\ args.analyze
           /\ args.sources[i].wsid = None
           /\ Len(locals'.deleted) > Len(locals.deleted)
           /\ locals'.deleted[Len(locals'.deleted)].by = i)
          => \A j \in Collectors \ {i} :
                ~QueryPending(j, locals'.deleted[Len(locals'.deleted)].wsid)]_vars

-----------------------------------------------------------------------------
(* indy_apis.py: UrlRequester._request against a server that answers every *)
(* request by the URL it is sent to.  args.server is that server,           *)
(* locals.url the URL of the running call of _request, locals.sent the     *)
(* requests sent so far, one by each nested call.                           *)

\* the nested calls of _request the interpreter allows before it raises
\* "maximum recursion depth exceeded"
RecursionLimit == 4

RequestUrls == [host : {IndyHost, "mirror"}, path : {"/api", "/moved"}]

RedirectLocations ==
    {NoLocation} \cup [host : {"", "mirror"}, path : {"/api", "/moved"}]

ServerResponses ==
    {Response(200, "{projects}", NoLocation), Response(404, "error", NoLocation)}
        \cup {Response(302, "", location) : location \in RedirectLocations}

InitRedirect ==
    /\ BuilderIdle
    /\ FilterIdle
    /\ op = "_request"
    /\ args \in [server : [RequestUrls -> ServerResponses],
                 method : {"POST", "DELETE"},
                 url : {[host |-> IndyHost, path |-> "/api"]},
                 data : {"data", None}]
    /\ result = <<>>
    /\ cpc = "request"
    /\ locals = [url |-> args.url, sent |-> <<>>]

\* lines 24-48: the request is sent to the URL and its response read; a
\* response of status 301 or 302 is followed by a nested call of _request
\* for the target, any other response is returned
UrlRequest ==
    /\ op = "_request"
    /\ cpc = "request"
    /\ Len(locals.sent) < RecursionLimit
    /\ LET response == args.server[locals.url]
           sent == Append(locals.sent, [method |-> args.method, url |-> locals.url,
                                        data |-> args.data])
       IN  IF response.status \in {301, 302}
           THEN IF response.location = NoLocation
                THEN /\ result' = Raised
                     /\ cpc' = "returned"
                     /\ locals' = [locals EXCEPT !.sent = sent]
                ELSE /\ locals' = [locals EXCEPT
                                      !.sent = sent,
                                      !.url = redirectTarget(locals.url, response.location)]
                     /\ UNCHANGED <<result, cpc>>
           ELSE /\ result' = Ok(response)
                /\ cpc' = "returned"
                /\ locals' = [locals EXCEPT !.sent = sent]
    /\ UNCHANGED <<op, args>>
    /\ UNCHANGED <<builderVars, filterVars>>

\* line 46: the nested call that exceeds the recursion limit raises, and so
\* do all the calls around it
UrlRequestTooDeep ==
    /\ op = "_request"
    /\ cpc = "request"
    /\ Len(locals.sent) = RecursionLimit
    /\ result' = Raised
    /\ cpc' = "returned"
    /\ UNCHANGED <<op, args, locals>>
    /\ UNCHANGED <<builderVars, filterVars>>

NextRedirect ==
    \/ UrlRequest
    \/ UrlRequestTooDeep

SpecRedirect == InitRedirect /\ [][NextRedirect]_vars

\* a call of _request that can take a step takes one
FairSpecRedirect == SpecRedirect /\ WF_vars(NextRedirect)

-----------------------------------------------------------------------------
(* Properties of the redirects *)

\* the server answers every request, the redirects with a Location
EveryRedirectHasLocation ==
    \A url \in RequestUrls :
        args.server[url].status \in {301, 302} => args.server[url].location # NoLocation

\* C38: _request sends the request again with the same method and body for
\* every 301 or 302 it receives, to the Location resolved against the scheme
\* and host of the request that was redirected, and eventually returns a
\* response that is not a redirect, whatever the server answers, servers
\* whose redirects form a cycle included.
RedirectFollowingTerminates ==
    /\ [](op = "_request" =>
            \A k \in DOMAIN locals.sent :
                /\ locals.sent[k].method = args.method
                /\ locals.sent[k].data = args.data
                /\ k > 1 => locals.sent[k].url =
                               redirectTarget(locals.sent[k - 1].url,
                                              args.server[locals.sent[k - 1].url].location))
    /\ (op = "_request" /\ EveryRedirectHasLocation) =>
            <>(cpc = "returned" /\ result # Raised /\ result.value.status \notin {301, 302})

-----------------------------------------------------------------------------
(* artifact_list_builder.py: ArtifactSpec.merge statement by statement.     *)
(* locals.self and locals.other are the two objects during the call,       *)
(* args.self and args.other what they were when it began, locals.unchecked *)
(* the keys of other.artTypes the loop has yet to visit.                   *)

InitMergeSteps ==
    /\ BuilderIdle
    /\ FilterIdle
    /\ op = "ArtifactSpec.merge"
    /\ args \in [self : MergeSpecs(pathA), other : MergeSpecs(pathB)]
    /\ result = <<>>
    /\ cpc = "called"
    /\ locals = [self |-> args.self, other |-> args.other,
                 unchecked |-> DOMAIN args.other.artTypes]

\* lines 965-966: the test of the URLs
MergeCheckUrl ==
    /\ op = "ArtifactSpec.merge"
    /\ cpc = "called"
    /\ IF locals.other.url # "" /\ locals.self.url # locals.other.url
       THEN /\ result' = Raised
            /\ cpc' = "returned"
       ELSE /\ cpc' = "types"
            /\ UNCHANGED result
    /\ UNCHANGED <<op, args, locals>>
    /\ UNCHANGED <<builderVars, filterVars>>

\* the receiver after the loop has passed a type of the argument
checkedTypeMerged(self, other, artType) ==
    [self EXCEPT !.artTypes = DictUpdate(@, [t \in {artType} |-> other.artTypes[t]])]

\* the receiver after the loop has passed a type of the argument (lines
\* 968-971: the loop only tests)
checkedType(self, other, artType) == self

\* lines 968-971: one round of the loop over the types of the argument
MergeCheckType ==
    /\ op = "ArtifactSpec.merge"
    /\ cpc = "types"
    /\ \E artType \in locals.unchecked :
          IF artType \in DOMAIN locals.self.artTypes
          THEN /\ result' = Raised
               /\ cpc' = "returned"
               /\ UNCHANGED locals
          ELSE /\ locals' = [locals EXCEPT
                                !.self = checkedType(locals.self, locals.other, artType),
                                !.unchecked = @ \ {artType}]
               /\ UNCHANGED <<result, cpc>>
    /\ UNCHANGED <<op, args>>
    /\ UNCHANGED <<builderVars, filterVars>>

\* lines 973-974: the types and the paths of the argument go to the receiver
MergeUpdate ==
    /\ op = "ArtifactSpec.merge"
    /\ cpc = "types"
    /\ locals.unchecked = {}
    /\ locals' = [locals EXCEPT !.self = merge(locals.self, locals.other)]
    /\ result' = Ok(locals'.self)
    /\ cpc' = "returned"
    /\ UNCHANGED <<op, args>>
    /\ UNCHANGED <<builderVars, filterVars>>

NextMergeSteps ==
    \/ MergeCheckUrl
    \/ MergeCheckType
    \/ MergeUpdate

SpecMergeSteps == InitMergeSteps /\ [][NextMergeSteps]_vars

-----------------------------------------------------------------------------
(* Properties of the steps of merge *)

\* C39: whenever merge raises, for different URLs or for a type both specs
\* have, the url, the artTypes and the paths of the receiver are what they
\* were before the call; the argument is never modified.
MergeAtomicOnFailure ==
    op = "ArtifactSpec.merge"
    => /\ (cpc = "returned" /\ result = Raised) => locals.self = args.self
       /\ locals.other = args.other

\* merge raised on the second type of the argument after the loop had
\* passed a type the receiver does not have
MergeRaisedAfterPassedType ==
    /\ op = "ArtifactSpec.merge"
    /\ cpc = "returned"
    /\ result = Raised
    /\ locals.unchecked # DOMAIN args.other.artTypes
    /\ args.self.paths # <<>>
    /\ args.other.paths # <<>>

-----------------------------------------------------------------------------
(* Properties of the main flags after the excluded-GAV stage *)

\* the version entry holds an extension:classifier combination, of a type
\* other than pom, outside the auxiliary set notMainExtClassifiers
HasMainCombination(spec) ==
    \E ext \in DOMAIN spec.artTypes \ {"pom"} :
        \E classifier \in spec.artTypes[ext].classifiers :
            (ext \o ":" \o classifier) \notin notMainExtClassifiers

\* C40: a version entry from which the excluded-GAV stage has removed every
\* classifier that made its types main, so that only auxiliary combinations
\* (and the pom next to them) remain, is dropped by the stage: it is not
\* kept with a type that is still flagged main.
StaleMainEntryDropped ==
    (fpc = "excludedTypes" /\ config.excludedGAVs # <<>>)
    => LET before == buildListOutcome(artifactSources).value
       IN  \A ga \in DOMAIN artifactList :
             \A p \in DOMAIN artifactList[ga] :
               \A v \in DOMAIN artifactList[ga][p] :
                  ~(/\ HasMainCombination(before[ga][p][v])
                    /\ ~HasMainCombination(artifactList[ga][p][v]))

====
